---- MODULE Spec2Model ----
(***************************************************************************)
(* Model of the live connection-flow aggregator of the network monitor     *)
(* (network_monitor/monitor.py, class NetworkMonitor): capture callback    *)
(* packet_handler, the shared flow table connection_states behind _lock,   *)
(* the cleanup thread _cleanup_old_connections and the ThreadPoolExecutor  *)
(* that runs send_to_ids.                                                  *)
(***************************************************************************)
EXTENDS Integers, Sequences, FiniteSets, TLC

(* ---------------- program constants (monitor.py) ---------------- *)
PACKETS_PER_CONNECTION == 3
CONNECTION_CLEANUP_INTERVAL == 300
MAX_CONNECTION_AGE == 600
MAX_WORKERS == 5

(* ---------------- program constants (dashboard/app.py) ---------------- *)
MAX_HISTORY_SIZE == 1000

(* ---------------- bounds of the model ---------------- *)
NumThreads == 2          \* threads calling packet_handler in the concurrent runs
MaxPackets == 3          \* frames captured while the monitor runs
MaxTime == 602           \* last clock value
RecordPackets == 4       \* packets captured in the concurrent-record run
BurstPackets == 4        \* packets captured in the single-connection run
MaxBatchLen == 3         \* longest batch handed to compute_connection_features
PoolPackets == 21        \* packets captured in the busy-pool run (7 batches)
OrderPackets == 7        \* packets captured in the two-direction run
LivePackets == 3         \* packets captured in the run with fair scheduling
LiveMaxTime == 902       \* last clock value in the run with fair scheduling
HaltPackets == 3         \* packets captured in the fair run that is stopped
HaltMaxTime == 602       \* last clock value in the fair run that is stopped
MaxAnalyzed == 2         \* predictions made in the dashboard run
StatsPredictions == 2    \* predictions made in the run of interleaved requests
StatsRequests == 3       \* /stats requests answered in that run
HistoryPredictions == 1002  \* results appended in the run that fills the history

Threads == 1..NumThreads
\* The thread in which sniff runs the callback.
MainThread == 1
NoHolder == -1
ReaperId == 0

None == [none |-> TRUE]

(* ---------------- captured frames ---------------- *)
\* A raw frame as the capture source hands it over: IP layer presence,
\* addresses, the transport layers it carries, ports and length; malformed
\* marks a frame on which reading a layer or a field raises.  The ports of a
\* layer the frame does not carry are never read.
NoPorts == [sport |-> 0, dport |-> 0]

RawIcmpAB  == [ip |-> TRUE, src |-> "A", dst |-> "B", layers |-> {"ICMP"},
               tcp |-> NoPorts, udp |-> NoPorts,
               len |-> 100, malformed |-> FALSE]
RawOtherAB == [ip |-> TRUE, src |-> "A", dst |-> "B", layers |-> {},
               tcp |-> NoPorts, udp |-> NoPorts,
               len |-> 60, malformed |-> FALSE]
RawIcmpBA  == [ip |-> TRUE, src |-> "B", dst |-> "A", layers |-> {"ICMP"},
               tcp |-> NoPorts, udp |-> NoPorts,
               len |-> 100, malformed |-> FALSE]
RawArp     == [ip |-> FALSE, src |-> "A", dst |-> "B", layers |-> {},
               tcp |-> NoPorts, udp |-> NoPorts,
               len |-> 42, malformed |-> FALSE]

RawTruncated == [ip |-> TRUE, src |-> "A", dst |-> "B", layers |-> {"ICMP"},
                 tcp |-> NoPorts, udp |-> NoPorts,
                 len |-> 20, malformed |-> TRUE]

RawPackets == {RawIcmpAB, RawOtherAB, RawIcmpBA, RawArp, RawTruncated}

\* Frames of the concurrent-record run: thread t only sees its own endpoints.
DisjointRaw(t) == IF t = 1 THEN {RawIcmpAB, RawOtherAB} ELSE
                  IF t = 2 THEN {RawIcmpBA} ELSE
                  {[ip |-> TRUE, src |-> "A", dst |-> "B", layers |-> {"TCP"},
                    tcp |-> [sport |-> 1000 + t, dport |-> 80],
                    udp |-> NoPorts, len |-> 100,
                    malformed |-> FALSE]}

\* Frames of the single-connection run: one pair of endpoints, one direction.
SameFlowRaw == {RawIcmpAB, RawOtherAB}

(* ---------------- pure functions ---------------- *)
\* datetime.now().isoformat(): the clock reading as text.
isoformat(t) == ToString(t)

\* extract_packet_features: None for a frame without IP layer and for a
\* frame on which the extraction raises (except Exception: return None),
\* else the feature dict; first matching layer in the order TCP, UDP, ICMP,
\* other.
extract_packet_features_UdpFirst(raw, id, t) ==
  IF ~raw.ip \/ raw.malformed THEN None
  ELSE LET base == [id |-> id, timestamp |-> isoformat(t), timestamp_raw |-> t,
                    src_ip |-> raw.src, dst_ip |-> raw.dst,
                    packet_size |-> raw.len]
       IN IF "UDP" \in raw.layers
            THEN base @@ [src_port |-> raw.udp.sport, dst_port |-> raw.udp.dport,
                          protocol_type |-> "udp"]
          ELSE IF "TCP" \in raw.layers
            THEN base @@ [src_port |-> raw.tcp.sport, dst_port |-> raw.tcp.dport,
                          protocol_type |-> "tcp"]
          ELSE IF "ICMP" \in raw.layers
            THEN base @@ [src_port |-> 0, dst_port |-> 0,
                          protocol_type |-> "icmp"]
          ELSE base @@ [src_port |-> 0, dst_port |-> 0,
                        protocol_type |-> "other"]
extract_packet_features_NoIpCheck(raw, id, t) ==
  IF raw.malformed THEN None
  ELSE [id |-> id, timestamp |-> isoformat(t), timestamp_raw |-> t,
        src_ip |-> raw.src, dst_ip |-> raw.dst, packet_size |-> raw.len,
        src_port |-> 0, dst_port |-> 0, protocol_type |-> "other"]
extract_packet_features(raw, id, t) ==
  IF ~raw.ip THEN None
  ELSE IF raw.malformed THEN None
  ELSE LET base == [id |-> id, timestamp |-> isoformat(t), timestamp_raw |-> t,
                    src_ip |-> raw.src, dst_ip |-> raw.dst,
                    packet_size |-> raw.len]
       IN IF "TCP" \in raw.layers
            THEN base @@ [src_port |-> raw.tcp.sport, dst_port |-> raw.tcp.dport,
                          protocol_type |-> "tcp"]
          ELSE IF "UDP" \in raw.layers
            THEN base @@ [src_port |-> raw.udp.sport, dst_port |-> raw.udp.dport,
                          protocol_type |-> "udp"]
          ELSE IF "ICMP" \in raw.layers
            THEN base @@ [src_port |-> 0, dst_port |-> 0,
                          protocol_type |-> "icmp"]
          ELSE base @@ [src_port |-> 0, dst_port |-> 0,
                        protocol_type |-> "other"]

\* conn_key = f"{src_ip}:{src_port}-{dst_ip}:{dst_port}"
ConnKey_Normalised(f) ==
  IF f.src_ip = "B" /\ f.dst_ip = "A"
    THEN <<f.dst_ip, f.dst_port, f.src_ip, f.src_port>>
    ELSE <<f.src_ip, f.src_port, f.dst_ip, f.dst_port>>
ConnKey(f) == <<f.src_ip, f.src_port, f.dst_ip, f.dst_port>>

PORT_SERVICE_MAP ==
  (20 :> "ftp_data") @@ (21 :> "ftp") @@ (22 :> "ssh") @@ (23 :> "telnet") @@
  (25 :> "smtp") @@ (53 :> "domain_u") @@ (80 :> "http") @@ (110 :> "pop_3") @@
  (143 :> "imap4") @@ (443 :> "https") @@ (3306 :> "mysql") @@
  (5432 :> "postgres") @@ (6379 :> "redis") @@ (8080 :> "http_8080") @@
  (8443 :> "https_alt")

map_port_to_service_HttpDefault(port) ==
  IF port \in DOMAIN PORT_SERVICE_MAP THEN PORT_SERVICE_MAP[port] ELSE "http"
map_port_to_service(port) ==
  IF port \in DOMAIN PORT_SERVICE_MAP THEN PORT_SERVICE_MAP[port] ELSE "other"

\* Python's None where the dict would hold text (an address, a timestamp).
NoneText == "<None>"

\* An entry of a batch that is no dict: calling .get on it raises.
NonDict == [nondict |-> TRUE]
IsDict(p) == "nondict" \notin DOMAIN p

\* dict.get(field, default)
Get(p, field, default) == IF field \in DOMAIN p THEN p[field] ELSE default

RECURSIVE SumSizes(_, _, _)
\* sum(p.get('packet_size', 0) for p in packets if p.get(field) == value)
SumSizes(packets, field, value) ==
  IF packets = <<>> THEN 0
  ELSE (IF Get(Head(packets), field, NoneText) = value
          THEN Get(Head(packets), "packet_size", 0) ELSE 0)
       + SumSizes(Tail(packets), field, value)

\* packet_list[0] and packet_list[-1]
FirstPacket_Last(packets) == packets[Len(packets)]
FirstPacket(packets) == packets[1]
LastPacket_Second(packets) == packets[IF Len(packets) >= 2 THEN 2 ELSE 1]
LastPacket(packets) == packets[Len(packets)]

\* The constant entries of the feature dict.
PlaceholderFields ==
  [flag |-> "SF", wrong_fragment |-> 0, urgent |-> 0, hot |-> 0,
   num_failed_logins |-> 0, logged_in |-> 0, num_compromised |-> 0,
   root_shell |-> 0, su_attempted |-> 0, num_root |-> 0,
   num_file_creations |-> 0, num_shells |-> 0, num_access_files |-> 0,
   num_outbound_cmds |-> 0, is_host_login |-> 0, is_guest_login |-> 0,
   serror_rate |-> 0, srv_serror_rate |-> 0, rerror_rate |-> 0,
   srv_rerror_rate |-> 0, same_srv_rate |-> 1, diff_srv_rate |-> 0,
   srv_diff_host_rate |-> 0, dst_host_count |-> 1, dst_host_srv_count |-> 1,
   dst_host_same_srv_rate |-> 1, dst_host_diff_srv_rate |-> 0,
   dst_host_same_src_port_rate |-> 1, dst_host_srv_diff_host_rate |-> 0,
   dst_host_serror_rate |-> 0, dst_host_srv_serror_rate |-> 0,
   dst_host_rerror_rate |-> 0, dst_host_srv_rerror_rate |-> 0]

\* compute_connection_features: None for an empty batch and when the
\* derivation raises (an entry that is no dict), else the vector.  Every
\* field is read with .get, so a missing key gives the default.  ids lists
\* the packets the vector was derived from (object identity of the dict
\* handed to the executor).
compute_connection_features(packets) ==
  IF packets = <<>> THEN None
  ELSE IF \E i \in 1..Len(packets) : ~IsDict(packets[i]) THEN None
  ELSE LET first_packet == FirstPacket(packets)
           last_packet == LastPacket(packets)
           src_ip == Get(first_packet, "src_ip", NoneText)
           dst_ip == Get(first_packet, "dst_ip", NoneText)
       IN [duration |-> Get(last_packet, "timestamp_raw", 0)
                          - Get(first_packet, "timestamp_raw", 0),
           protocol_type |-> Get(first_packet, "protocol_type", "tcp"),
           service |-> map_port_to_service(Get(first_packet, "dst_port", 0)),
           src_bytes |-> SumSizes(packets, "src_ip", src_ip),
           dst_bytes |-> SumSizes(packets, "dst_ip", dst_ip),
           land |-> IF src_ip = dst_ip THEN 1 ELSE 0,
           count |-> Len(packets),
           srv_count |-> Len(packets),
           src_ip |-> src_ip,
           dst_ip |-> dst_ip,
           timestamp |-> Get(first_packet, "timestamp", NoneText),
           ids |-> [i \in 1..Len(packets) |-> Get(packets[i], "id", 0)]]
          @@ PlaceholderFields

\* if conn_features: self.executor.submit(self.send_to_ids, conn_features)
QueueAfterSubmit_Always(q, v) == Append(q, v)
QueueAfterSubmit(q, v) == IF v # None THEN Append(q, v) ELSE q

\* executor.submit puts the work item on the executor's unbounded queue and
\* returns; it waits neither for a free pool thread nor for room.
SubmitCanProceed_Bounded(q, busy) == Len(q) + Cardinality(busy) < MAX_WORKERS
SubmitCanProceed(q, busy) == TRUE

\* deque(maxlen=PACKETS_PER_CONNECTION * 2).append: drops the oldest entry
\* when the deque is full.
DequeMaxLen == PACKETS_PER_CONNECTION * 2
DequeAppend_Left(d, x) == <<x>> \o d
DequeAppend(d, x) ==
  IF Len(d) >= DequeMaxLen THEN Append(Tail(d), x) ELSE Append(d, x)

(* ---------------- state ---------------- *)
VARIABLES
  now,                \* time.time()
  running,            \* self._running
  connection_states,  \* dict: connection key -> flow-state object
  heap,               \* flow-state objects: packets, start_time, last_update
  lock,               \* holder of self._lock
  pc,                 \* position of each packet_handler thread
  features,           \* packet_handler local: features
  conn_state,         \* packet_handler local: conn_state (object reference)
  packet_count,       \* packet_handler local: packet_count
  packets_to_analyze, \* packet_handler local: packets_to_analyze
  rpc,                \* position of the cleanup thread
  sleep_start,        \* time at which the cleanup thread went to sleep
  current_time,       \* _cleanup_old_connections local: current_time
  keys_to_remove,     \* _cleanup_old_connections local: keys_to_remove
  cleaned,            \* number printed by the last sweep (0: nothing printed)
  sweeps_after_stop,  \* history: sweeps begun after _running was cleared
  queue,              \* executor work queue
  inflight,           \* vectors whose send_to_ids is running
  captured,           \* number of frames handed to packet_handler
  batches,            \* history: snapshots taken, in order
  posts,              \* history: requests.post calls, in order (vector, outcome)
  discarded,          \* history: packets dropped with an evicted flow
  mpc,                \* start_monitoring: "start", "sniff", "shutdown", "returned"
  caught,             \* exception start_monitoring caught from sniff, or "none"
  cbatch,             \* batch handed to a direct call of compute_connection_features
  cresult,            \* what that call returned (NotCalled before the call)
  cqueue,             \* what its caller then submitted
  dframe,             \* frame handed to a call of extract_packet_features
  dresult,            \* what that call returned
  session,            \* dashboard: the browser's session
  request,            \* dashboard: last request received
  response,           \* dashboard: response to that request
  threat_history,     \* dashboard: ids_engine.threat_history (result numbers)
  predicted,          \* dashboard history: results appended so far
  ppc,                \* dashboard: position of the thread inside predict
  p_returned,         \* dashboard history: how the last predict call ended
  completed,          \* dashboard history: results whose predict has returned
  spc,                \* dashboard: position of the thread inside get_stats
  s_stats,            \* get_stats local: stats
  s_began,            \* dashboard history: completed when get_stats began
  s_answer,           \* dashboard history: what the last get_stats returned
  stats_served,       \* dashboard history: get_stats calls answered
  stats_cache,        \* dashboard: ids_engine._stats_cache
  model_loaded,       \* dashboard: ids_engine.model is not None
  twilio_enabled      \* dashboard: ids_engine.twilio_enabled

prodVars == <<pc, features, conn_state, packet_count, packets_to_analyze>>
reaperVars == <<rpc, sleep_start, current_time, keys_to_remove, cleaned,
                sweeps_after_stop>>
tableVars == <<connection_states, heap>>
execVars == <<queue, inflight, posts>>
mainVars == <<mpc, caught>>
pureVars == <<cbatch, cresult, cqueue, dframe, dresult>>
stepVars == <<ppc, p_returned, completed, spc, s_stats, s_began, s_answer,
              stats_served>>
dashVars == <<session, request, response, threat_history, predicted,
              stats_cache, model_loaded, twilio_enabled, stepVars>>
vars == <<now, running, connection_states, heap, lock, pc, features,
          conn_state, packet_count, packets_to_analyze,
          rpc, sleep_start, current_time, keys_to_remove, cleaned,
          sweeps_after_stop,
          queue, inflight, captured, batches, posts, discarded,
          mpc, caught, cbatch, cresult, cqueue, dframe, dresult,
          session, request, response, threat_history, predicted,
          stats_cache, model_loaded, twilio_enabled,
          ppc, p_returned, completed, spc, s_stats, s_began, s_answer,
          stats_served>>

ObjIds == 1..(3 + NumThreads)
NoObj == 0

\* id(...) of a new flow-state object: any address not in use.
FreshObj == CHOOSE o \in ObjIds : o \notin DOMAIN heap

NotCalled == [notcalled |-> TRUE]

InitMonitor ==
  /\ now = 0
  /\ running = TRUE
  /\ connection_states = <<>>
  /\ heap = <<>>
  /\ lock = NoHolder
  /\ pc = [t \in Threads |-> "idle"]
  /\ features = [t \in Threads |-> None]
  /\ conn_state = [t \in Threads |-> NoObj]
  /\ packet_count = [t \in Threads |-> 0]
  /\ packets_to_analyze = [t \in Threads |-> <<>>]
  /\ rpc = "loop"
  /\ sleep_start = 0
  /\ current_time = 0
  /\ keys_to_remove = {}
  /\ cleaned = 0
  /\ sweeps_after_stop = 0
  /\ queue = <<>>
  /\ inflight = {}
  /\ captured = 0
  /\ batches = <<>>
  /\ posts = <<>>
  /\ discarded = {}
  /\ mpc = "start"
  /\ caught = "none"

\* Lines 47-54: ids_engine after IDSEngine(): empty history, no cached
\* stats, no request being served.
NoAnswer == [total |-> 0, from_cache |-> FALSE, began |-> 0, served |-> FALSE]

EngineIdle ==
  /\ threat_history = <<>>
  /\ predicted = 0
  /\ stats_cache = None
  /\ ppc = "idle"
  /\ p_returned = "not_called"
  /\ completed = 0
  /\ spc = "idle"
  /\ s_stats = None
  /\ s_began = 0
  /\ s_answer = NoAnswer
  /\ stats_served = 0

\* The dashboard process before any request, in the runs of the monitor.
DashIdle ==
  /\ session = [k \in {} |-> TRUE]
  /\ request = [route |-> "none", method |-> "none"]
  /\ response = [status |-> 0, body |-> "none"]
  /\ EngineIdle
  /\ model_loaded = FALSE
  /\ twilio_enabled = FALSE

Init ==
  /\ InitMonitor
  /\ cbatch = <<>>
  /\ cresult = NotCalled
  /\ cqueue = <<>>
  /\ dframe = RawArp
  /\ dresult = NotCalled
  /\ DashIdle


(* ---------------- helpers on the flow table ---------------- *)
\* Objects still referenced by the dict or by a thread's local conn_state
\* stay alive; everything else is reclaimed.
Collect(h, cs, refs) ==
  [o \in {x \in DOMAIN h : (\E k \in DOMAIN cs : cs[k] = x) \/ x \in refs}
     |-> h[o]]

PacketIds(ps) == {ps[i].id : i \in 1..Len(ps)}

Refs(cst) == {cst[t] : t \in Threads} \ {NoObj}

\* packet_handler, "with self._lock": granted only when nobody holds it.
CanAcquire_Ignored == TRUE
CanAcquire == lock = NoHolder

\* _cleanup_old_connections, "with self._lock": the same lock.
ReaperCanAcquire_Ignored == TRUE
ReaperCanAcquire == lock = NoHolder

\* packet_count >= PACKETS_PER_CONNECTION
ThresholdReached_OffByOne(n) == n > PACKETS_PER_CONNECTION
ThresholdReached(n) == n >= PACKETS_PER_CONNECTION

\* conn_state['packets'].clear()
Cleared_Kept(d) == d
Cleared(d) == <<>>

\* current_time - state['last_update'] > MAX_CONNECTION_AGE
IsStale_Inclusive(cur, last) == cur - last >= MAX_CONNECTION_AGE
IsStale_Reversed(cur, last) == last - cur > MAX_CONNECTION_AGE
IsStale(cur, last) == cur - last > MAX_CONNECTION_AGE

\* packets_to_analyze = list(conn_state['packets']) is a list of its own:
\* what the deque holds later does not show in it.
HeldBatchAfter_Alias(batch, deque_now) == deque_now
HeldBatchAfter(batch, deque_now) == batch

\* Holder of the lock once packet_handler leaves the "with" block, before
\* compute_connection_features and executor.submit run.
HolderAfterWith_Kept(t) == IF packets_to_analyze[t] # <<>> THEN t ELSE NoHolder
HolderAfterWith(t) == NoHolder

(* ---------------- packet_handler ---------------- *)
\* Lines 236-246: decode the frame; a frame without features ends the call.
Capture(t, R, limit) ==
  /\ pc[t] = "idle"
  /\ running
  /\ captured < limit
  /\ \E raw \in R :
       LET f == extract_packet_features(raw, captured + 1, now) IN
       /\ features' = [features EXCEPT ![t] = f]
       /\ pc' = [pc EXCEPT ![t] = IF f = None THEN "idle" ELSE "acquire"]
  /\ captured' = captured + 1
  /\ UNCHANGED <<dashVars, pureVars, mainVars,
                 now, running, tableVars, lock, conn_state, packet_count,
                 packets_to_analyze, reaperVars, execVars, batches, discarded>>

\* Lines 249-250: with self._lock: conn_state = self.connection_states[key]
\* (defaultdict: a missing key is inserted with an empty deque and the
\* current time)
Lookup(t) ==
  /\ pc[t] = "acquire"
  /\ CanAcquire
  /\ lock' = t
  /\ LET key == ConnKey(features[t]) IN
       IF key \in DOMAIN connection_states
         THEN /\ conn_state' = [conn_state EXCEPT ![t] = connection_states[key]]
              /\ UNCHANGED tableVars
         ELSE LET o == FreshObj IN
              /\ heap' = heap @@ (o :> [packets |-> <<>>, start_time |-> now,
                                        last_update |-> now])
              /\ connection_states' = connection_states @@ (key :> o)
              /\ conn_state' = [conn_state EXCEPT ![t] = o]
  /\ pc' = [pc EXCEPT ![t] = "append"]
  /\ UNCHANGED <<dashVars, pureVars, mainVars,
                 now, running, features, packet_count, packets_to_analyze,
                 reaperVars, execVars, captured, batches, discarded>>

\* Lines 251-253: conn_state['packets'].append(features);
\* conn_state['last_update'] = time.time(); packet_count = len(packets)
AppendPacket(t) ==
  /\ pc[t] = "append"
  /\ LET appended == DequeAppend(heap[conn_state[t]].packets, features[t]) IN
       /\ heap' = [heap EXCEPT ![conn_state[t]].packets = appended,
                               ![conn_state[t]].last_update = now]
       /\ packet_count' = [packet_count EXCEPT ![t] = Len(appended)]
  /\ pc' = [pc EXCEPT ![t] = "check"]
  /\ UNCHANGED <<dashVars, pureVars, mainVars,
                 now, running, connection_states, lock, features, conn_state,
                 packets_to_analyze, reaperVars, execVars, captured, batches,
                 discarded>>

\* Lines 260-261: threshold test and snapshot list(conn_state['packets'])
Snapshot(t) ==
  /\ pc[t] = "check"
  /\ IF ThresholdReached(packet_count[t])
       THEN /\ packets_to_analyze' = [packets_to_analyze EXCEPT
                                        ![t] = heap[conn_state[t]].packets]
            /\ batches' = Append(batches, heap[conn_state[t]].packets)
            /\ pc' = [pc EXCEPT ![t] = "clear"]
       ELSE /\ pc' = [pc EXCEPT ![t] = "release"]
            /\ UNCHANGED <<dashVars, pureVars, mainVars, packets_to_analyze, batches>>
  /\ UNCHANGED <<dashVars, pureVars, mainVars,
                 now, running, tableVars, lock, features, conn_state,
                 packet_count, reaperVars, execVars, captured, discarded>>

\* Line 263: conn_state['packets'].clear()
Clear(t) ==
  /\ pc[t] = "clear"
  /\ heap' = [heap EXCEPT ![conn_state[t]].packets = Cleared(@)]
  /\ packets_to_analyze' =
       [packets_to_analyze EXCEPT
          ![t] = HeldBatchAfter(@, Cleared(heap[conn_state[t]].packets))]
  /\ pc' = [pc EXCEPT ![t] = "release"]
  /\ UNCHANGED <<dashVars, pureVars, mainVars,
                 now, running, connection_states, lock, features, conn_state,
                 packet_count, reaperVars, execVars, captured, batches,
                 discarded>>

\* End of the "with" block, then line 268: without a batch the call returns.
Release(t) ==
  /\ pc[t] = "release"
  /\ lock' = HolderAfterWith(t)
  /\ conn_state' = [conn_state EXCEPT ![t] = NoObj]
  /\ heap' = Collect(heap, connection_states, Refs(conn_state'))
  /\ packet_count' = [packet_count EXCEPT ![t] = 0]
  /\ IF packets_to_analyze[t] # <<>>
       THEN /\ pc' = [pc EXCEPT ![t] = "process"]
            /\ UNCHANGED features
       ELSE /\ pc' = [pc EXCEPT ![t] = "idle"]
            /\ features' = [features EXCEPT ![t] = None]
  /\ UNCHANGED <<dashVars, pureVars, mainVars,
                 now, running, connection_states, packets_to_analyze,
                 reaperVars, execVars, captured, batches, discarded>>

\* Lines 269-273: conn_features = compute_connection_features(batch);
\* if conn_features: self.executor.submit(self.send_to_ids, conn_features)
Process(t) ==
  /\ pc[t] = "process"
  /\ SubmitCanProceed(queue, inflight)
  /\ LET conn_features == compute_connection_features(packets_to_analyze[t]) IN
       queue' = QueueAfterSubmit(queue, conn_features)
  /\ pc' = [pc EXCEPT ![t] = "idle"]
  /\ features' = [features EXCEPT ![t] = None]
  /\ packets_to_analyze' = [packets_to_analyze EXCEPT ![t] = <<>>]
  /\ UNCHANGED <<dashVars, pureVars, mainVars,
                 now, running, tableVars, lock, conn_state, packet_count,
                 reaperVars, inflight, posts, captured, batches, discarded>>

(* ---------------- _cleanup_old_connections ---------------- *)
\* Line 321: the test of "while self._running".
LoopContinues_Forever(flag) == TRUE
LoopContinues(flag) == flag

\* Line 321: while self._running; line 322: time.sleep starts
ReaperLoop ==
  /\ rpc = "loop"
  /\ IF LoopContinues(running)
       THEN rpc' = "sleep" /\ sleep_start' = now
       ELSE rpc' = "done" /\ UNCHANGED sleep_start
  /\ UNCHANGED <<dashVars, pureVars, mainVars,
                 now, running, tableVars, lock, prodVars, current_time,
                 keys_to_remove, cleaned, sweeps_after_stop, execVars,
                 captured, batches, discarded>>

\* Lines 322-323: time.sleep(CONNECTION_CLEANUP_INTERVAL) returns, then
\* current_time = time.time()
ReaperWake ==
  /\ rpc = "sleep"
  /\ now - sleep_start >= CONNECTION_CLEANUP_INTERVAL
  /\ current_time' = now
  /\ sweeps_after_stop' = IF running THEN sweeps_after_stop
                                     ELSE sweeps_after_stop + 1
  /\ rpc' = "acquire"
  /\ UNCHANGED <<dashVars, pureVars, mainVars,
                 now, running, tableVars, lock, prodVars, sleep_start,
                 keys_to_remove, cleaned, execVars, captured, batches,
                 discarded>>

\* Lines 325-330: with self._lock: keys_to_remove = [key for key, state in
\* self.connection_states.items() if ... > MAX_CONNECTION_AGE]
ReaperFilter ==
  /\ rpc = "acquire"
  /\ ReaperCanAcquire
  /\ lock' = ReaperId
  /\ keys_to_remove' =
       {k \in DOMAIN connection_states :
          IsStale(current_time, heap[connection_states[k]].last_update)}
  /\ rpc' = "delete"
  /\ UNCHANGED <<dashVars, pureVars, mainVars,
                 now, running, tableVars, prodVars, sleep_start, current_time,
                 cleaned, sweeps_after_stop, execVars, captured, batches,
                 discarded>>

\* Lines 331-332: the dict after "del self.connection_states[key]" for
\* every key of keys_to_remove.
TableAfterDelete_Kept(cs, keys) == cs
TableAfterDelete(cs, keys) == [k \in DOMAIN cs \ keys |-> cs[k]]

\* Lines 331-335: for key in keys_to_remove: del self.connection_states[key];
\* the count is printed when it is not zero; end of the "with" block
ReaperDelete ==
  /\ rpc = "delete"
  /\ connection_states' = TableAfterDelete(connection_states, keys_to_remove)
  /\ heap' = Collect(heap, connection_states', Refs(conn_state))
  /\ discarded' = discarded \cup
       UNION {PacketIds(heap[connection_states[k]].packets) :
                k \in keys_to_remove \cap DOMAIN connection_states}
  /\ cleaned' = IF keys_to_remove # {} THEN Cardinality(keys_to_remove)
                ELSE cleaned
  /\ lock' = NoHolder
  /\ rpc' = "loop"
  /\ UNCHANGED <<dashVars, pureVars, mainVars,
                 now, running, prodVars, sleep_start, current_time,
                 keys_to_remove, sweeps_after_stop, execVars, captured,
                 batches>>

(* ---------------- ThreadPoolExecutor and send_to_ids ---------------- *)
\* Ways in which requests.post / response handling of send_to_ids ends:
\* status 200 with JSON body, status 200 with another body, another status,
\* Timeout, ConnectionError, other RequestException.
Outcomes == {"ok", "non_json", "bad_status", "timeout", "connection_error",
             "request_error"}

\* The executor queue after send_to_ids returned: every branch of
\* send_to_ids only prints; nothing is put back.
QueueAfterDelivery_Retry(q, v, outcome) ==
  IF outcome = "ok" THEN q ELSE Append(q, v)
QueueAfterDelivery(q, v, outcome) == q

\* ThreadPoolExecutor(max_workers=5): a work item is taken only by one of
\* the at most MAX_WORKERS pool threads that is not in a call.
WorkerFree_Unbounded(busy) == TRUE
WorkerFree(busy) == Cardinality(busy) < MAX_WORKERS

\* A pool thread (max_workers=5) takes the oldest work item and enters
\* send_to_ids.
WorkerStart ==
  /\ queue # <<>>
  /\ WorkerFree(inflight)
  /\ inflight' = inflight \cup {Head(queue)}
  /\ queue' = Tail(queue)
  /\ UNCHANGED <<dashVars, pureVars, mainVars,
                 now, running, tableVars, lock, prodVars, reaperVars, posts,
                 captured, batches, discarded>>

\* self._running after send_to_ids returned: no branch of send_to_ids
\* assigns it.
RunningAfterDelivery_GiveUp(r, outcome) ==
  IF outcome = "connection_error" THEN FALSE ELSE r
RunningAfterDelivery(r, outcome) == r

\* Lines 277-317: the request ends in one of the outcomes O and send_to_ids
\* returns.
WorkerFinishWith(O) ==
  \E v \in inflight, outcome \in O :
    /\ posts' = Append(posts, [ids |-> v.ids, outcome |-> outcome])
    /\ inflight' = inflight \ {v}
    /\ queue' = QueueAfterDelivery(queue, v, outcome)
    /\ running' = RunningAfterDelivery(running, outcome)
    /\ UNCHANGED <<dashVars, pureVars, mainVars, now, tableVars, lock, prodVars,
                   reaperVars, captured, batches, discarded>>

WorkerFinish == WorkerFinishWith(Outcomes)

(* ---------------- environment ---------------- *)
\* The wall clock.  Its unit of progress is the cleanup interval (or one
\* second more, which makes idle times of exactly MAX_CONNECTION_AGE and
\* just above it reachable); a packet_handler call and a sweep take far
\* less than that, so the clock moves only while no handler is running and
\* the cleanup thread is asleep or gone.
TickSteps == {CONNECTION_CLEANUP_INTERVAL, CONNECTION_CLEANUP_INTERVAL + 1}

Tick(limit) ==
  /\ rpc \in {"sleep", "done"}
  /\ \A t \in Threads : pc[t] = "idle"
  /\ \E d \in TickSteps : now + d <= limit /\ now' = now + d
  /\ UNCHANGED <<dashVars, pureVars, mainVars,
                 running, tableVars, lock, prodVars, reaperVars, execVars,
                 captured, batches, discarded>>

(* ---------------- start_monitoring ---------------- *)
\* self._running after either except clause (lines 378 and 383).
RunningAfterExcept_OnlyInterrupt(exc) == exc # "KeyboardInterrupt"
RunningAfterExcept(exc) == FALSE

\* executor.shutdown(wait=True) returns once every pending work item has
\* run and every pool thread has ended.
ShutdownMayReturn_NoWait == TRUE
ShutdownMayReturn == queue = <<>> /\ inflight = {}

\* Lines 370-375: sniff opens the capture source and starts to call
\* packet_handler.
SniffStart ==
  /\ mpc = "start"
  /\ mpc' = "sniff"
  /\ UNCHANGED <<dashVars, pureVars,
                 caught, now, running, tableVars, lock, prodVars, reaperVars,
                 execVars, captured, batches, discarded>>

\* Lines 380-384: sniff cannot open the capture source (no permission, no
\* such interface) and raises; the except clause prints the error, clears
\* the running flag and shuts the executor down.
SniffFailsToStart ==
  /\ mpc = "start"
  /\ caught' = "Exception"
  /\ running' = RunningAfterExcept("Exception")
  /\ mpc' = "shutdown"
  /\ UNCHANGED <<dashVars, pureVars,
                 now, tableVars, lock, prodVars, reaperVars, execVars,
                 captured, batches, discarded>>

\* Lines 376-379: Ctrl+C ends sniff between two callbacks with
\* KeyboardInterrupt; start_monitoring clears the running flag and enters
\* executor.shutdown(wait=True).  (An exception that sniff raises later in
\* the capture runs the same assignments in the other except clause.)
Stop ==
  /\ mpc = "sniff"
  /\ running
  /\ \A t \in Threads : pc[t] = "idle"
  /\ caught' = "KeyboardInterrupt"
  /\ running' = RunningAfterExcept("KeyboardInterrupt")
  /\ mpc' = "shutdown"
  /\ UNCHANGED <<dashVars, pureVars,
                 now, tableVars, lock, prodVars, reaperVars, execVars,
                 captured, batches, discarded>>

\* Lines 379 / 384: executor.shutdown(wait=True) returns and with it
\* start_monitoring; no exception leaves start_monitoring.
ShutdownReturns ==
  /\ mpc = "shutdown"
  /\ ShutdownMayReturn
  /\ mpc' = "returned"
  /\ UNCHANGED <<dashVars, pureVars,
                 caught, now, running, tableVars, lock, prodVars, reaperVars,
                 execVars, captured, batches, discarded>>

\* Lines 370-375: while sniff runs it calls prn=self.packet_handler for
\* each frame.
Sniff ==
  /\ mpc = "sniff"
  /\ Capture(MainThread, RawPackets, MaxPackets)

(* ---------------- specifications ---------------- *)
Handler(t) ==
  \/ Lookup(t)
  \/ AppendPacket(t)
  \/ Snapshot(t)
  \/ Clear(t)
  \/ Release(t)
  \/ Process(t)

Reaper ==
  \/ ReaperLoop
  \/ ReaperWake
  \/ ReaperFilter
  \/ ReaperDelete

\* The monitor as it runs: sniff calls packet_handler from one thread, the
\* cleanup thread and the pool threads run beside it.
Next ==
  \/ SniffStart
  \/ SniffFailsToStart
  \/ Sniff
  \/ Handler(MainThread)
  \/ Reaper
  \/ WorkerStart
  \/ WorkerFinish
  \/ Tick(MaxTime)
  \/ Stop
  \/ ShutdownReturns

Spec == Init /\ [][Next]_vars

\* The concurrent-record run: NumThreads threads call packet_handler, each
\* with frames of its own connection keys; the run is over before the cleanup
\* thread's first sleep ends.
NextRecord ==
  \/ \E t \in Threads : Capture(t, DisjointRaw(t), RecordPackets)
  \/ \E t \in Threads : Handler(t)

SpecRecord == Init /\ [][NextRecord]_vars

\* The single-connection run: NumThreads threads call packet_handler with
\* frames of one connection, so all appends and drains meet on one flow.
NextBurst ==
  \/ \E t \in Threads : Capture(t, SameFlowRaw, BurstPackets)
  \/ \E t \in Threads : Handler(t)

SpecBurst == Init /\ [][NextBurst]_vars

\* The busy-pool run: sniff delivers packets of one connection faster than
\* the API answers; every request ends in a timeout.  More batches are
\* submitted than the pool has threads.
NextPool ==
  \/ Capture(MainThread, {RawIcmpAB}, PoolPackets)
  \/ Handler(MainThread)
  \/ WorkerStart
  \/ WorkerFinishWith({"timeout"})

SpecPool == Init /\ [][NextPool]_vars

\* The two-direction run: sniff delivers packets of one pair of endpoints in
\* both directions, in any interleaving; each direction is a flow of its own
\* and may fill more than one batch.
NextOrder ==
  \/ Capture(MainThread, {RawIcmpAB, RawIcmpBA}, OrderPackets)
  \/ Handler(MainThread)

SpecOrder == Init /\ [][NextOrder]_vars

\* The run with fair scheduling: the monitor keeps running (no Ctrl+C), the
\* clock keeps moving up to LiveMaxTime, and every thread that can take a
\* step eventually takes it: the handler runs to the end of its call (the
\* deliveries are left queued: they do not touch the flow table), the cleanup
\* thread is a started daemon thread that the
\* scheduler does not starve, and time.sleep returns once the interval is
\* over.
NextLive ==
  \/ SniffStart
  \/ mpc = "sniff" /\ Capture(MainThread, {RawIcmpAB}, LivePackets)
  \/ Handler(MainThread)
  \/ Reaper
  \/ Tick(LiveMaxTime)

SpecLive ==
  /\ Init
  /\ [][NextLive]_vars
  /\ WF_vars(SniffStart)
  /\ WF_vars(Handler(MainThread))
  /\ WF_vars(Reaper)
  /\ WF_vars(Tick(LiveMaxTime))

\* The fair run that is stopped: as the run with fair scheduling, and Ctrl+C
\* may arrive between two callbacks at any time; start_monitoring then clears
\* _running and returns once the executor has shut down.
NextHalt ==
  \/ SniffStart
  \/ mpc = "sniff" /\ Capture(MainThread, {RawIcmpAB}, HaltPackets)
  \/ Handler(MainThread)
  \/ Reaper
  \/ WorkerStart
  \/ WorkerFinishWith({"ok"})
  \/ Tick(HaltMaxTime)
  \/ Stop
  \/ ShutdownReturns

SpecHalt ==
  /\ Init
  /\ [][NextHalt]_vars
  /\ WF_vars(Handler(MainThread))
  /\ WF_vars(Reaper)
  /\ WF_vars(WorkerStart)
  /\ WF_vars(WorkerFinishWith({"ok"}))
  /\ WF_vars(ShutdownReturns)
  /\ WF_vars(Tick(HaltMaxTime))

(* ---------------- compute_connection_features on its own ---------------- *)
\* Packet dicts as extract_packet_features builds them (clock readings in
\* milliseconds).
TcpPacket(src, sport, dst, dport, size, t) ==
  [timestamp |-> isoformat(t), timestamp_raw |-> t, src_ip |-> src,
   dst_ip |-> dst, packet_size |-> size, src_port |-> sport,
   dst_port |-> dport, protocol_type |-> "tcp"]

Pkt100 == TcpPacket("10.0.0.1", 1000, "10.0.0.2", 80, 100, 0)
Pkt150 == TcpPacket("10.0.0.1", 1000, "10.0.0.2", 80, 150, 100)
Pkt200 == TcpPacket("10.0.0.1", 1000, "10.0.0.2", 80, 200, 250)
PktReply == TcpPacket("10.0.0.2", 80, "10.0.0.1", 1000, 60, 100)
PktLand == [TcpPacket("10.0.0.1", 53, "10.0.0.1", 53, 80, 0)
              EXCEPT !.protocol_type = "udp"]
PktIcmp == [TcpPacket("10.0.0.1", 0, "10.0.0.2", 0, 100, 250)
              EXCEPT !.protocol_type = "icmp"]

\* A dict without the keys in missing.
Without(p, missing) == [f \in DOMAIN p \ missing |-> p[f]]
PktNoSrc == Without(Pkt100, {"src_ip"})
PktNoTime == Without(Pkt150, {"timestamp_raw"})

BasePackets == {Pkt100, Pkt150, Pkt200, PktReply, PktLand, PktIcmp,
                PktNoSrc, PktNoTime, NonDict}

\* Destination ports tried as the first packet's dst_port: the well-known
\* ports of the service table and ports beside them.
TestPorts == {20, 21, 22, 23, 25, 53, 80, 110, 143, 443, 3306, 5432, 6379,
              8080, 8443, 0, 1, 81, 8081}
PortProbe(port) == [Pkt100 EXCEPT !.dst_port = port]

SeqsUpTo(S, n) == UNION {[1..k -> S] : k \in 0..n}

\* Batches handed to compute_connection_features: every sequence of base
\* packets up to MaxBatchLen, and for every test port a batch that starts
\* with a packet to that port.
ComputeBatches ==
  SeqsUpTo(BasePackets, MaxBatchLen)
  \cup {<<PortProbe(port)>> \o rest :
          port \in TestPorts, rest \in SeqsUpTo({Pkt150}, MaxBatchLen - 1)}

InitCompute ==
  /\ InitMonitor
  /\ cbatch \in ComputeBatches
  /\ cresult = NotCalled
  /\ cqueue = <<>>
  /\ dframe = RawArp
  /\ dresult = NotCalled
  /\ DashIdle

\* Lines 270-273 of packet_handler on the batch cbatch:
\* conn_features = self.compute_connection_features(packets_to_analyze);
\* if conn_features: submit.
ComputeCall ==
  /\ cresult = NotCalled
  /\ cresult' = compute_connection_features(cbatch)
  /\ cqueue' = QueueAfterSubmit(cqueue, compute_connection_features(cbatch))
  /\ UNCHANGED <<dashVars, cbatch, dframe, dresult, mainVars, now, running, tableVars,
                 lock, prodVars, reaperVars, execVars, captured, batches,
                 discarded>>

NextCompute == ComputeCall

SpecCompute == InitCompute /\ [][NextCompute]_vars

(* ---------------- extract_packet_features on given frames ---------------- *)
\* Frames handed to the decoder: with or without IP layer, readable or not,
\* carrying any combination of TCP, UDP and ICMP layers (an ICMP error
\* message quotes the TCP or UDP header of the packet it answers), with
\* different ports in the TCP and in the UDP header.
TcpPorts == {[sport |-> 1234, dport |-> 80], [sport |-> 80, dport |-> 1234]}
UdpPorts == {[sport |-> 5353, dport |-> 53], [sport |-> 68, dport |-> 67]}

DecodeFrames ==
  {[ip |-> i, src |-> "A", dst |-> "B", layers |-> L, tcp |-> tp, udp |-> up,
    len |-> 100, malformed |-> m] :
     i \in BOOLEAN, m \in BOOLEAN, L \in SUBSET {"TCP", "UDP", "ICMP"},
     tp \in TcpPorts, up \in UdpPorts}

InitDecode ==
  /\ InitMonitor
  /\ cbatch = <<>>
  /\ cresult = NotCalled
  /\ cqueue = <<>>
  /\ dframe \in DecodeFrames
  /\ dresult = NotCalled
  /\ DashIdle

\* Line 236 of packet_handler on the frame dframe:
\* features = self.extract_packet_features(packet)
DecodeCall ==
  /\ dresult = NotCalled
  /\ dresult' = extract_packet_features(dframe, 0, now)
  /\ UNCHANGED <<dashVars, cbatch, cresult, cqueue, dframe, mainVars, now, running,
                 tableVars, lock, prodVars, reaperVars, execVars, captured,
                 batches, discarded>>

NextDecode == DecodeCall

SpecDecode == InitDecode /\ [][NextDecode]_vars

(* ---------------- dashboard/app.py: sessions and routes ---------------- *)
\* Texts are sequences of characters, so that str.strip is computed.
ADMIN_USERNAME == <<"a", "d", "m", "i", "n">>
ADMIN_PASSWORD == <<"a", "d", "m", "i", "n">>

\* str.strip(): leading and trailing blanks removed.
RECURSIVE lstrip(_)
lstrip(s) == IF s # <<>> /\ Head(s) = " " THEN lstrip(Tail(s)) ELSE s

RECURSIVE rstrip(_)
rstrip(s) ==
  IF s # <<>> /\ s[Len(s)] = " " THEN rstrip(SubSeq(s, 1, Len(s) - 1)) ELSE s

strip(s) == rstrip(lstrip(s))

\* What a client types into the login form; a field left out of the form
\* reads as '' (request.form.get(..., '')).
Typed ==
  {<<>>, <<" ">>, ADMIN_USERNAME, <<" ">> \o ADMIN_USERNAME,
   ADMIN_USERNAME \o <<" ">>, <<"r", "o", "o", "t">>}

\* The session of one browser: a dict, empty until login() writes to it.
EmptySession == [k \in {} |-> TRUE]

\* Lines 240 / 242: the negation of
\* 'logged_in' not in session or not session['logged_in'].
LoggedIn_Always(s) == TRUE
LoggedIn(s) == "logged_in" \in DOMAIN s /\ s["logged_in"]

\* Line 255: username == ADMIN_USERNAME and password == ADMIN_PASSWORD
CredentialsOk(username, password) ==
  username = ADMIN_USERNAME /\ password = ADMIN_PASSWORD

\* Line 271: session.clear()
SessionAfterClear(s) == EmptySession

NoRequest == [route |-> "none", method |-> "none"]
NoResponse == [status |-> 0, body |-> "none"]

RedirectLogin == [status |-> 302, body |-> "redirect:/login"]
RedirectIndex == [status |-> 302, body |-> "redirect:/"]

dashUnchanged == <<pureVars, mainVars, now, running, tableVars, lock, prodVars,
                   reaperVars, execVars, captured, batches, discarded>>

InitDash ==
  /\ InitMonitor
  /\ cbatch = <<>>
  /\ cresult = NotCalled
  /\ cqueue = <<>>
  /\ dframe = RawArp
  /\ dresult = NotCalled
  /\ session = EmptySession
  /\ request = NoRequest
  /\ response = NoResponse
  /\ EngineIdle
  /\ model_loaded \in BOOLEAN
  /\ twilio_enabled \in BOOLEAN

\* Lines 236-245: login_required wraps the view: without a logged-in session
\* the view is not called and the client is sent to the login page (none of
\* the wrapped routes is under /api/ or is /analyze, so the 401 branch is
\* not taken).
Guarded(req, viewResponse) ==
  /\ request' = req
  /\ response' = IF LoggedIn(session) THEN viewResponse ELSE RedirectLogin

\* Lines 248-260: POST /login
LoginPost ==
  \E u \in Typed, p \in Typed :
    LET username == strip(u)
        password == strip(p)
    IN /\ request' = [route |-> "/login", method |-> "POST", username |-> u,
                      password |-> p]
       /\ IF CredentialsOk(username, password)
            THEN /\ session' = [k \in DOMAIN session \cup {"logged_in", "username"} |->
                                  IF k = "logged_in" THEN TRUE ELSE username]
                 /\ response' = RedirectIndex
            ELSE /\ session' = session
                 /\ response' = [status |-> 302, body |-> "redirect:/login?error=1"]
       /\ UNCHANGED <<dashUnchanged, stepVars, threat_history, predicted, stats_cache,
                 model_loaded,
                      twilio_enabled>>

\* Lines 248-249, 262-266: GET /login
LoginGet ==
  /\ request' = [route |-> "/login", method |-> "GET"]
  /\ response' = IF "logged_in" \in DOMAIN session /\ session["logged_in"]
                   THEN RedirectIndex
                   ELSE [status |-> 200, body |-> "login.html"]
  /\ UNCHANGED <<dashUnchanged, stepVars, session, threat_history, predicted, stats_cache,
                 model_loaded, twilio_enabled>>

\* Lines 268-272: GET /logout
Logout ==
  /\ request' = [route |-> "/logout", method |-> "GET"]
  /\ session' = SessionAfterClear(session)
  /\ response' = RedirectLogin
  /\ UNCHANGED <<dashUnchanged, stepVars, threat_history, predicted, stats_cache,
                 model_loaded,
                 twilio_enabled>>

\* Lines 275-280: GET /
Index ==
  /\ Guarded([route |-> "/", method |-> "GET"],
             [status |-> 200, body |-> "dashboard.html"])
  /\ UNCHANGED <<dashUnchanged, stepVars, session, threat_history, predicted, stats_cache,
                 model_loaded, twilio_enabled>>

\* Lines 315-324: GET /threats
GetThreats ==
  /\ Guarded([route |-> "/threats", method |-> "GET"],
             [status |-> 200, body |-> "threats",
              total |-> Len(threat_history)])
  /\ UNCHANGED <<dashUnchanged, stepVars, session, threat_history, predicted, stats_cache,
                 model_loaded, twilio_enabled>>

\* Lines 326-375: GET /stats; fresh says whether the cached stats are
\* younger than _cache_ttl.
GetStats ==
  \E fresh \in BOOLEAN :
    LET stats == [total_analyzed |-> Len(threat_history)]
        cached == stats_cache # None /\ fresh
    IN /\ Guarded([route |-> "/stats", method |-> "GET"],
                  [status |-> 200, body |-> "stats",
                   total |-> IF cached THEN stats_cache.total_analyzed
                                       ELSE Len(threat_history)])
       /\ stats_cache' = IF LoggedIn(session) /\ ~cached THEN stats
                                                         ELSE stats_cache
       /\ UNCHANGED <<dashUnchanged, stepVars, session, threat_history,
                      predicted, model_loaded, twilio_enabled>>

\* Lines 377-392: POST /test-alert
TestAlert ==
  /\ Guarded([route |-> "/test-alert", method |-> "POST"],
             IF twilio_enabled
               THEN [status |-> 200, body |-> "Test alert sent"]
               ELSE [status |-> 400, body |-> "Twilio not configured"])
  /\ UNCHANGED <<dashUnchanged, stepVars, session, threat_history, predicted, stats_cache,
                 model_loaded, twilio_enabled>>

\* What the body of a POST /analyze is, and how IDSEngine.predict ends:
\* with a result, with 'Preprocessing failed', with an exception raised
\* before the result is built (model.predict), or with one raised after the
\* result was appended (socketio.emit, Thread.start).
Bodies == {"not_json", "empty", "features"}
Predictions == {"result", "preprocess_failed", "raises_before", "raises_after"}

\* Lines 176-177: does predict reach self.threat_history.append(result)?
Appends(r) == r \in {"result", "raises_after"}

\* Line 48 and 177: append on deque(maxlen=MAX_HISTORY_SIZE): a full deque
\* drops its oldest entry.
HistoryAppend_DropNewest(h, x) ==
  IF Len(h) >= MAX_HISTORY_SIZE THEN h ELSE Append(h, x)
HistoryAppend(h, x) ==
  IF Len(h) >= MAX_HISTORY_SIZE THEN Append(Tail(h), x) ELSE Append(h, x)

\* Lines 224-230 and 282-313: POST /analyze; check_api_access returns None
\* for every request and the view is not wrapped by login_required.
\* Lines 148-193: predict appends the result to threat_history and drops the
\* cached stats; every exception is turned into an error dict.  At most limit
\* results are appended in a run.
AnalyzeUpTo(limit) ==
  \E b \in Bodies, r \in Predictions :
    LET called == b = "features" /\ model_loaded
        appended == called /\ Appends(r)
    IN
    /\ ppc = "idle"
    /\ request' = [route |-> "/analyze", method |-> "POST", json |-> b,
                   predict |-> IF called THEN r ELSE "not_called"]
    /\ appended => predicted < limit
    /\ response' =
         IF b = "not_json" THEN [status |-> 400, body |-> "Request must be JSON"]
         ELSE IF b = "empty" THEN [status |-> 400, body |-> "No features provided"]
         ELSE IF ~model_loaded THEN [status |-> 503, body |-> "Model not loaded"]
         ELSE IF r = "result" THEN [status |-> 200, body |-> "result"]
         ELSE [status |-> 200, body |-> "error"]
    /\ threat_history' = IF appended
                           THEN HistoryAppend(threat_history, predicted + 1)
                           ELSE threat_history
    /\ predicted' = IF appended THEN predicted + 1 ELSE predicted
    /\ completed' = IF appended THEN completed + 1 ELSE completed
    /\ p_returned' = IF called THEN r ELSE p_returned
    /\ stats_cache' = IF appended THEN None ELSE stats_cache
    /\ UNCHANGED <<dashUnchanged, session, model_loaded, twilio_enabled,
                   ppc, spc, s_stats, s_began, s_answer, stats_served>>

AnalyzePost == AnalyzeUpTo(MaxAnalyzed)

\* Lines 288-289: OPTIONS /analyze (CORS preflight)
AnalyzeOptions ==
  /\ request' = [route |-> "/analyze", method |-> "OPTIONS"]
  /\ response' = [status |-> 200, body |-> ""]
  /\ UNCHANGED <<dashUnchanged, stepVars, session, threat_history, predicted, stats_cache,
                 model_loaded, twilio_enabled>>

NextDash ==
  \/ LoginPost
  \/ LoginGet
  \/ Logout
  \/ Index
  \/ GetThreats
  \/ GetStats
  \/ TestAlert
  \/ AnalyzePost
  \/ AnalyzeOptions

SpecDash == InitDash /\ [][NextDash]_vars

(* ---------------- predict and get_stats, statement by statement ---------------- *)
\* The server hands every request to a thread of its own (waitress
\* threads=WORKERS, the threaded development server), so a thread inside
\* predict and a thread inside get_stats interleave between statements.
\* ids_engine has no lock.

\* The session of a client that has logged in.
AdminSession == [logged_in |-> TRUE, username |-> ADMIN_USERNAME]

InitStats ==
  /\ InitMonitor
  /\ cbatch = <<>>
  /\ cresult = NotCalled
  /\ cqueue = <<>>
  /\ dframe = RawArp
  /\ dresult = NotCalled
  /\ session = AdminSession
  /\ request = NoRequest
  /\ response = NoResponse
  /\ EngineIdle
  /\ model_loaded = TRUE
  /\ twilio_enabled \in BOOLEAN

\* Line 177: self.threat_history.append(result), in a POST /analyze whose
\* body and model are in order.
PredictAppend ==
  /\ ppc = "idle"
  /\ model_loaded
  /\ predicted < StatsPredictions
  /\ threat_history' = HistoryAppend(threat_history, predicted + 1)
  /\ predicted' = predicted + 1
  /\ ppc' = "appended"
  /\ UNCHANGED <<dashUnchanged, session, request, response, stats_cache,
                 model_loaded, twilio_enabled, p_returned, completed, spc,
                 s_stats, s_began, s_answer, stats_served>>

\* Line 180: self._stats_cache = None
PredictInvalidate ==
  /\ ppc = "appended"
  /\ stats_cache' = None
  /\ ppc' = "invalidated"
  /\ UNCHANGED <<dashUnchanged, session, request, response, threat_history,
                 predicted, model_loaded, twilio_enabled, p_returned,
                 completed, spc, s_stats, s_began, s_answer, stats_served>>

\* Lines 183-189 and 310: emit, alert thread, return result; analyze_traffic
\* answers with it.
PredictReturn ==
  /\ ppc = "invalidated"
  /\ completed' = completed + 1
  /\ p_returned' = "result"
  /\ request' = [route |-> "/analyze", method |-> "POST", json |-> "features",
                 predict |-> "result"]
  /\ response' = [status |-> 200, body |-> "result"]
  /\ ppc' = "idle"
  /\ UNCHANGED <<dashUnchanged, session, threat_history, predicted,
                 stats_cache, model_loaded, twilio_enabled, spc, s_stats,
                 s_began, s_answer, stats_served>>

\* Lines 331-339: a GET /stats of the logged-in client begins; a cache entry
\* that is there and fresh is returned, else the stats are computed.
StatsBegin ==
  \E fresh \in BOOLEAN :
    /\ spc = "idle"
    /\ LoggedIn(session)
    /\ stats_served < StatsRequests
    /\ s_began' = completed
    /\ IF stats_cache # None /\ fresh
         THEN /\ s_answer' = [total |-> stats_cache.total_analyzed,
                              from_cache |-> TRUE, began |-> completed,
                              served |-> TRUE]
              /\ request' = [route |-> "/stats", method |-> "GET"]
              /\ response' = [status |-> 200, body |-> "stats",
                              total |-> stats_cache.total_analyzed]
              /\ stats_served' = stats_served + 1
              /\ spc' = "idle"
         ELSE /\ spc' = "compute"
              /\ UNCHANGED <<s_answer, request, response, stats_served>>
    /\ UNCHANGED <<dashUnchanged, session, threat_history, predicted,
                   stats_cache, model_loaded, twilio_enabled, ppc, p_returned,
                   completed, s_stats>>

\* Lines 339-370: the stats of the history as it is now.
StatsCompute ==
  /\ spc = "compute"
  /\ s_stats' = [total_analyzed |-> Len(threat_history)]
  /\ spc' = "store"
  /\ UNCHANGED <<dashUnchanged, session, request, response, threat_history,
                 predicted, stats_cache, model_loaded, twilio_enabled, ppc,
                 p_returned, completed, s_began, s_answer, stats_served>>

\* Lines 348-350 / 372-375: the stats are cached and returned.
StatsStore ==
  /\ spc = "store"
  /\ stats_cache' = s_stats
  /\ s_answer' = [total |-> s_stats.total_analyzed, from_cache |-> FALSE,
                  began |-> s_began, served |-> TRUE]
  /\ request' = [route |-> "/stats", method |-> "GET"]
  /\ response' = [status |-> 200, body |-> "stats",
                  total |-> s_stats.total_analyzed]
  /\ stats_served' = stats_served + 1
  /\ spc' = "idle"
  /\ UNCHANGED <<dashUnchanged, session, threat_history, predicted,
                 model_loaded, twilio_enabled, ppc, p_returned, completed,
                 s_stats, s_began>>

(* ---------------- IDSEngine.predict and the threat history ---------------- *)
\* Lines 148-193: one call of ids_engine.predict, whoever makes it: without
\* a model it returns an error at once; else it ends in one of the ways of
\* Predictions.  At most limit results are appended in a run.
PredictCall(limit) ==
  \E r \in Predictions :
    LET outcome == IF model_loaded THEN r ELSE "model_none"
        appended == Appends(outcome)
    IN
    /\ ppc = "idle"
    /\ appended => predicted < limit
    /\ threat_history' = IF appended
                           THEN HistoryAppend(threat_history, predicted + 1)
                           ELSE threat_history
    /\ predicted' = IF appended THEN predicted + 1 ELSE predicted
    /\ completed' = IF appended THEN completed + 1 ELSE completed
    /\ p_returned' = outcome
    /\ stats_cache' = IF appended THEN None ELSE stats_cache
    /\ UNCHANGED <<dashUnchanged, session, request, response, model_loaded,
                   twilio_enabled, ppc, spc, s_stats, s_began, s_answer,
                   stats_served>>

InitHistory ==
  /\ InitMonitor
  /\ cbatch = <<>>
  /\ cresult = NotCalled
  /\ cqueue = <<>>
  /\ dframe = RawArp
  /\ dresult = NotCalled
  /\ session = EmptySession
  /\ request = NoRequest
  /\ response = NoResponse
  /\ EngineIdle
  /\ model_loaded \in BOOLEAN
  /\ twilio_enabled = FALSE

NextHistory == PredictCall(HistoryPredictions)

SpecHistory == InitHistory /\ [][NextHistory]_vars

NextStats ==
  \/ PredictAppend
  \/ PredictInvalidate
  \/ PredictReturn
  \/ StatsBegin
  \/ StatsCompute
  \/ StatsStore

SpecStats == InitStats /\ [][NextStats]_vars

(* ---------------- properties ---------------- *)
Last(q) == q[Len(q)]

\* The buffer thread t works on inside the "with" block.
Buffer(t) == heap[conn_state[t]].packets

\* Number of threads that hold batch b and have not yet submitted it.
Holders(b) == Cardinality({t \in Threads : packets_to_analyze[t] = b})

\* Number of vectors derived from batch b that were handed to the executor.
Submitted(b) ==
  LET ids == [i \in 1..Len(b) |-> b[i].id] IN
  Cardinality({i \in 1..Len(queue) : queue[i].ids = ids})
  + Cardinality({v \in inflight : v.ids = ids})
  + Cardinality({i \in 1..Len(posts) : posts[i].ids = ids})

\* C1: the packet that brings a flow's buffer to PACKETS_PER_CONNECTION
\* entries, and no earlier packet of that buffer, makes packet_handler take a
\* batch; the batch ends with that packet, the buffer is empty when the
\* "with" block is left, and every batch taken is computed and submitted
\* exactly once.
C1_ThresholdTriggersOneSubmit ==
  /\ \A t \in Threads :
       /\ pc[t] = "clear" =>
            /\ packet_count[t] = PACKETS_PER_CONNECTION
            /\ packets_to_analyze[t] = Buffer(t)
            /\ Last(packets_to_analyze[t]) = features[t]
       /\ pc[t] = "release" =>
            /\ (packets_to_analyze[t] # <<>>)
                 <=> (packet_count[t] = PACKETS_PER_CONNECTION)
            /\ packets_to_analyze[t] # <<>> => Buffer(t) = <<>>
            /\ packets_to_analyze[t] = <<>> =>
                 /\ Len(Buffer(t)) = packet_count[t]
                 /\ Last(Buffer(t)) = features[t]
       /\ pc[t] = "process" =>
            /\ Len(packets_to_analyze[t]) = PACKETS_PER_CONNECTION
            /\ Last(packets_to_analyze[t]) = features[t]
       /\ pc[t] = "idle" => packets_to_analyze[t] = <<>>
  /\ \A i \in 1..Len(batches) : Holders(batches[i]) + Submitted(batches[i]) = 1

\* C1 witness: a third packet has been recorded, its batch was submitted and
\* the flow is still in the table with an empty buffer.
C1_Witness ==
  /\ Len(batches) = 1
  /\ Len(queue) = 1
  /\ \E k \in DOMAIN connection_states :
       heap[connection_states[k]].packets = <<>>
  /\ \A t \in Threads : pc[t] = "idle"

\* Packets whose append (line 251) has been executed.
Recorded ==
  {p \in 1..captured :
     ~\E t \in Threads : /\ pc[t] \in {"acquire", "append"}
                         /\ features[t].id = p}

\* Occurrences of packet p in the batches packet_handler has taken and
\* cleared out of the table.
InBatches(p) ==
  Cardinality({ij \in (1..Len(batches)) \X (1..PACKETS_PER_CONNECTION * 2) :
     /\ ij[2] <= Len(batches[ij[1]])
     /\ batches[ij[1]][ij[2]].id = p
     /\ ~\E t \in Threads : /\ pc[t] = "clear"
                            /\ packets_to_analyze[t] = batches[ij[1]]})

\* Occurrences of packet p in the buffers of the flow-state objects.
InBuffers(p) ==
  Cardinality({oj \in (DOMAIN heap) \X (1..PACKETS_PER_CONNECTION * 2) :
     /\ oj[2] <= Len(heap[oj[1]].packets)
     /\ heap[oj[1]].packets[oj[2]].id = p})

\* C2: with threads recording packets of pairwise disjoint connection keys,
\* every recorded packet is in exactly one place: one batch taken out of the
\* table or one flow's buffer, never in both and never twice.
C2_NoPacketLostOrDuplicated ==
  \A p \in Recorded : InBatches(p) + InBuffers(p) = 1

\* C2 witness: one thread has had a batch returned while another thread has
\* just appended a packet to its own flow.
C2_Witness ==
  /\ Len(batches) = 1
  /\ \E t, u \in Threads :
       /\ pc[t] = "process"
       /\ pc[u] = "check"
       /\ Buffer(u) # <<>>
       /\ ConnKey(features[t]) # ConnKey(features[u])

\* C3: a flow's buffer never holds more than PACKETS_PER_CONNECTION packets,
\* which is within the deque's capacity of twice that, and between the
\* snapshot and the clear the buffer is exactly the snapshot: no append of
\* another thread gets in between, and the drain leaves the buffer empty.
C3_BoundedBufferAtomicDrain ==
  /\ PACKETS_PER_CONNECTION <= DequeMaxLen
  /\ \A o \in DOMAIN heap : Len(heap[o].packets) <= PACKETS_PER_CONNECTION
  /\ \A t \in Threads :
       /\ pc[t] = "clear" => Buffer(t) = packets_to_analyze[t]
       /\ (pc[t] = "release" /\ packets_to_analyze[t] # <<>>) =>
            Buffer(t) = <<>>

\* C3 witness: a thread stands between snapshot and clear while another
\* thread waits with a packet for the same flow.
C3_Witness ==
  \E t, u \in Threads :
    /\ pc[t] = "clear"
    /\ pc[u] = "acquire"
    /\ ConnKey(features[u]) = ConnKey(features[t])

\* C4: every key of the table maps to one flow-state object with a buffer
\* and a last-update time, every live flow-state object belongs to exactly
\* one key, and the object a packet_handler call works on is the one the
\* table holds for its key: an append never goes to an object a sweep has
\* removed.
C4_OneLiveFlowStatePerKey ==
  /\ \A k \in DOMAIN connection_states :
       /\ connection_states[k] \in DOMAIN heap
       /\ heap[connection_states[k]].start_time
            <= heap[connection_states[k]].last_update
       /\ heap[connection_states[k]].last_update <= now
       /\ Len(heap[connection_states[k]].packets) <= PACKETS_PER_CONNECTION
  /\ \A o \in DOMAIN heap :
       Cardinality({k \in DOMAIN connection_states :
                      connection_states[k] = o}) = 1
  /\ \A t \in Threads :
       conn_state[t] # NoObj =>
         /\ ConnKey(features[t]) \in DOMAIN connection_states
         /\ connection_states[ConnKey(features[t])] = conn_state[t]

\* C4 witness: the sweep holds the lock and is about to delete a key for
\* which packet_handler waits with a new packet.
C4_Witness ==
  /\ rpc = "delete"
  /\ pc[MainThread] = "acquire"
  /\ ConnKey(features[MainThread]) \in keys_to_remove

\* C5: the deletion step of a sweep removes exactly the keys whose
\* last-update time is more than MAX_CONNECTION_AGE before the sweep's
\* current_time, prints their number, and leaves every other flow in the
\* table with the same object, buffer and times.
C5_SweepRemovesExactlyStale ==
  [][(rpc = "delete" /\ rpc' = "loop") =>
       /\ DOMAIN connection_states' \subseteq DOMAIN connection_states
       /\ \A k \in DOMAIN connection_states :
            IF current_time - heap[connection_states[k]].last_update
                 > MAX_CONNECTION_AGE
              THEN k \notin DOMAIN connection_states'
              ELSE /\ k \in DOMAIN connection_states'
                   /\ connection_states'[k] = connection_states[k]
                   /\ heap'[connection_states[k]] = heap[connection_states[k]]
       /\ LET n == Cardinality(DOMAIN connection_states
                                 \ DOMAIN connection_states')
          IN n > 0 => cleaned' = n]_vars

\* C5 witness: a sweep has just removed one flow and printed 1, and a flow
\* updated within MAX_CONNECTION_AGE is still in the table with its packet.
C5_Witness ==
  /\ rpc = "loop"
  /\ cleaned = 1
  /\ discarded # {}
  /\ \E k \in DOMAIN connection_states :
       /\ heap[connection_states[k]].packets # <<>>
       /\ current_time - heap[connection_states[k]].last_update
            <= MAX_CONNECTION_AGE
       /\ heap[connection_states[k]].last_update < current_time

\* C6: packets of different protocol kinds between the same addresses and
\* ports are kept in different flows: no buffer and no batch mixes protocol
\* kinds.
C6_ProtocolKindSeparatesFlows ==
  /\ \A o \in DOMAIN heap :
       \A i, j \in 1..Len(heap[o].packets) :
         heap[o].packets[i].protocol_type = heap[o].packets[j].protocol_type
  /\ \A b \in 1..Len(batches) :
       \A i, j \in 1..Len(batches[b]) :
         batches[b][i].protocol_type = batches[b][j].protocol_type

\* The key of the opposite direction, and the flow state the table holds
\* for a key.
Reverse(k) == <<k[3], k[4], k[1], k[2]>>

FlowIn(cs, h, k) == IF k \in DOMAIN cs THEN h[cs[k]] ELSE None

FlowOf(k) == FlowIn(connection_states, heap, k)

Endpoints(f) == <<f.src_ip, f.src_port, f.dst_ip, f.dst_port>>

\* C7: the two directions of a connection are separate flows: a buffer or a
\* batch only holds packets of its own direction, and no step of
\* packet_handler for one direction changes the buffer or the times of the
\* flow of the opposite direction.
C7_DirectionsAreSeparateFlows ==
  /\ [](/\ \A k \in DOMAIN connection_states :
             \A i \in 1..Len(FlowOf(k).packets) :
               Endpoints(FlowOf(k).packets[i]) = k
        /\ \A b \in 1..Len(batches) :
             \A i \in 1..Len(batches[b]) :
               Endpoints(batches[b][i]) = Endpoints(batches[b][1]))
  /\ [][\A t \in Threads :
          (pc[t] \in {"acquire", "append", "check", "clear", "release"}
             /\ pc'[t] # pc[t]) =>
            LET k == Endpoints(features[t]) IN
            Reverse(k) # k =>
              FlowIn(connection_states', heap', Reverse(k)) = FlowOf(Reverse(k))]_vars

\* C7 witness: both directions are in the table, each with its own packets,
\* and the A->B flow holds more packets than the B->A flow.
C7_Witness ==
  \E k \in DOMAIN connection_states :
    /\ Reverse(k) # k
    /\ Reverse(k) \in DOMAIN connection_states
    /\ Len(FlowOf(k).packets) = 2
    /\ Len(FlowOf(Reverse(k)).packets) = 1

\* Positions of packet_handler and of the sweep inside their "with" blocks.
InHandlerBlock(t) == pc[t] \in {"append", "check", "clear", "release"}

InSweepBlock == rpc = "delete"

\* C8: a thread is inside the "with" block of packet_handler only while it
\* holds the lock, the sweep is inside its "with" block only while it holds
\* the lock, so packet_handler and the sweep are never inside at the same
\* time, and no flow-state reference is held outside the block.
C8_TableAccessOnlyUnderLock ==
  /\ \A t \in Threads : InHandlerBlock(t) => lock = t
  /\ InSweepBlock => lock = ReaperId
  /\ ~\E t \in Threads : InHandlerBlock(t) /\ InSweepBlock
  /\ \A t \in Threads : ~InHandlerBlock(t) => conn_state[t] = NoObj

\* C8 witness: packet_handler is inside the block while the sweep waits for
\* the lock.
C8_Witness ==
  /\ pc[MainThread] = "check"
  /\ rpc = "acquire"
  /\ lock = MainThread

\* C9: while a batch is computed and submitted the thread does not hold the
\* lock and works on the snapshot only, and a sweep waiting for the lock can
\* take it.
C9_ComputeAndSubmitOutsideLock ==
  \A t \in Threads :
    pc[t] = "process" =>
      /\ lock # t
      /\ conn_state[t] = NoObj
      /\ packets_to_analyze[t] # <<>>
      /\ rpc = "acquire" => ENABLED ReaperFilter

\* C9 witness: the sweep holds the lock while packet_handler is about to
\* compute and submit a batch.
C9_Witness ==
  /\ pc[MainThread] = "process"
  /\ lock = ReaperId
  /\ rpc = "delete"

\* Number of finished requests for the vector with packet ids ids.
NumPosts(ids) == Cardinality({i \in 1..Len(posts) : posts[i].ids = ids})

Pending(ids) ==
  Cardinality({i \in 1..Len(queue) : queue[i].ids = ids})
  + Cardinality({v \in inflight : v.ids = ids})

\* C10: a vector is posted at most once and is gone from the executor once
\* its request has ended, whatever the outcome; the step that ends a request
\* puts nothing back in the queue and changes nothing of packet_handler, the
\* table, the lock or the sweep.
C10_DeliveredAtMostOnceNoRetry ==
  /\ [](\A i \in 1..Len(posts) :
          /\ NumPosts(posts[i].ids) = 1
          /\ Pending(posts[i].ids) = 0)
  /\ [][Len(posts') > Len(posts) =>
          /\ queue' = queue
          /\ Cardinality(inflight') = Cardinality(inflight) - 1
          /\ UNCHANGED <<now, running, tableVars, lock, prodVars, reaperVars,
                         captured, batches, discarded>>]_vars

\* C10 witness: the only vector's request timed out and the executor holds
\* nothing.
C10_Witness ==
  /\ Len(posts) = 1
  /\ posts[1].outcome = "timeout"
  /\ queue = <<>>
  /\ inflight = {}

\* What record and the sweep read and write: the clock, the running flag,
\* the table, the lock, the locals of packet_handler and of the cleanup
\* thread, and the histories of captured frames, batches and evictions.
flowVars == <<now, running, tableVars, lock, prodVars, reaperVars, captured,
              batches, discarded>>

C12_SubmitNeverBlocksCapture ==
  running =>
    /\ pc[MainThread] = "process" => ENABLED Process(MainThread)
    /\ pc[MainThread] # "idle" => ENABLED Handler(MainThread)
    /\ pc[MainThread] = "idle" /\ captured < PoolPackets
         => ENABLED Capture(MainThread, {RawIcmpAB}, PoolPackets)

\* C12 witness: all MAX_WORKERS pool threads are in a request none of which
\* has ended, a further vector waits in the queue, and packet_handler has
\* already accepted the next packet.
C12_Witness ==
  /\ Cardinality(inflight) = MAX_WORKERS
  /\ Len(queue) >= 1
  /\ posts = <<>>
  /\ pc[MainThread] = "acquire"

\* Identities of the packets of batch b, as a vector carries them.
IdsOf(b) == [i \in 1..Len(b) |-> b[i].id]

\* C13: after the stop (Ctrl+C) packet_handler is not called again and the
\* running flag, which the cleanup thread polls, is cleared; from then on no
\* frame is captured, no batch is taken and nothing is added to the executor
\* queue.  When start_monitoring has returned, the executor holds nothing,
\* every batch taken before the stop has been posted exactly once, and
\* nothing of the executor or the batches changes any more.
C13_ShutdownDrainsDispatcher ==
  /\ [](mpc \in {"shutdown", "returned"} =>
          /\ ~running
          /\ pc[MainThread] = "idle")
  /\ [](mpc = "returned" =>
          /\ queue = <<>>
          /\ inflight = {}
          /\ \A i \in 1..Len(batches) : NumPosts(IdsOf(batches[i])) = 1)
  /\ [][(mpc \in {"shutdown", "returned"}) =>
          /\ captured' = captured
          /\ batches' = batches
          /\ Len(queue') <= Len(queue)
          /\ UNCHANGED <<prodVars>>]_vars
  /\ [][mpc = "returned" => UNCHANGED <<execVars, batches, mainVars>>]_vars

\* C13 witness: start_monitoring has returned after Ctrl+C; the batch taken
\* before the stop was posted and the request failed.
C13_Witness ==
  /\ mpc = "returned"
  /\ caught = "KeyboardInterrupt"
  /\ Len(batches) = 1
  /\ Len(posts) = 1
  /\ posts[1].outcome = "timeout"

\* C14 as stated: a start failure of the capture source is propagated to the
\* caller as an error, so start_monitoring never returns normally after it.
C14_StartFailurePropagated ==
  caught = "Exception" => mpc # "returned"

\* C14, amended: a start failure of the capture source is fatal but not
\* propagated.  start_monitoring catches it, clears the running flag and goes
\* through executor.shutdown, which can return at once, and then returns
\* normally; monitoring has not started: no frame was handed to
\* packet_handler, the flow table is empty, and no batch or vector exists.
C14_StartFailureCaughtAndReported ==
  caught = "Exception" =>
    /\ mpc \in {"shutdown", "returned"}
    /\ mpc = "shutdown" => ENABLED ShutdownReturns
    /\ ~running
    /\ captured = 0
    /\ connection_states = <<>>
    /\ batches = <<>>
    /\ queue = <<>> /\ inflight = {} /\ posts = <<>>

\* C14 witness: sniff failed to start, start_monitoring has returned
\* normally and the cleanup thread has seen the cleared flag and ended.
C14_Witness ==
  /\ caught = "Exception"
  /\ mpc = "returned"
  /\ rpc = "done"

\* Frames for which extract_packet_features has no feature dict: no IP
\* layer, or the extraction raises.
Undecodable(raw) == ~raw.ip \/ raw.malformed

\* C15: extract_packet_features returns None exactly for the frames without
\* IP layer and the frames on which the extraction raises.  packet_handler
\* then returns at once: the step that takes such a frame changes only the
\* count of captured frames; the table, the lock, the handler's locals, the
\* batches and the executor stay as they were, and the handler is idle again
\* and ready for the next frame.  A handler that is past that return always
\* holds a feature dict.
C15_UndecodablePacketIsSkipped ==
  /\ [](/\ \A raw \in RawPackets :
             (extract_packet_features(raw, captured + 1, now) = None)
               <=> Undecodable(raw)
        /\ \A t \in Threads : pc[t] # "idle" => features[t] # None
        /\ (/\ mpc = "sniff" /\ running /\ pc[MainThread] = "idle"
            /\ captured < MaxPackets) => ENABLED Sniff)
  /\ [][captured' # captured /\ pc'[MainThread] = "idle" =>
          UNCHANGED <<tableVars, lock, prodVars, reaperVars, execVars,
                      batches, discarded, now, running, mainVars>>]_vars

\* C15 witness: the first two frames were skipped, the third was recorded
\* and is the only packet in the table.
C15_Witness ==
  /\ captured = 3
  /\ pc[MainThread] = "idle"
  /\ \E k \in DOMAIN connection_states :
       /\ Len(heap[connection_states[k]].packets) = 1
       /\ heap[connection_states[k]].packets[1].id = 3

\* The 41 fields of the feature schema.
SchemaFields ==
  {"duration", "protocol_type", "service", "flag", "src_bytes", "dst_bytes",
   "land", "wrong_fragment", "urgent", "hot", "num_failed_logins",
   "logged_in", "num_compromised", "root_shell", "su_attempted", "num_root",
   "num_file_creations", "num_shells", "num_access_files",
   "num_outbound_cmds", "is_host_login", "is_guest_login", "count",
   "srv_count", "serror_rate", "srv_serror_rate", "rerror_rate",
   "srv_rerror_rate", "same_srv_rate", "diff_srv_rate", "srv_diff_host_rate",
   "dst_host_count", "dst_host_srv_count", "dst_host_same_srv_rate",
   "dst_host_diff_srv_rate", "dst_host_same_src_port_rate",
   "dst_host_srv_diff_host_rate", "dst_host_serror_rate",
   "dst_host_srv_serror_rate", "dst_host_rerror_rate",
   "dst_host_srv_rerror_rate"}

\* The vector is complete: the 41 schema fields and the three metadata
\* fields.
Complete(v) ==
  /\ Cardinality(SchemaFields) = 41
  /\ SchemaFields \cup {"src_ip", "dst_ip", "timestamp"} \subseteq DOMAIN v

\* Batch entries that are packet records but lack the source address or the
\* raw timestamp.
LacksRequired(p) ==
  IsDict(p) /\ ~({"src_ip", "timestamp_raw"} \subseteq DOMAIN p)

\* The derivation raises on the batch.
Raises(b) == \E i \in 1..Len(b) : ~IsDict(b[i])

\* C16 as stated: an empty batch and a batch with a packet record that lacks
\* its source address or raw timestamp make compute return None and nothing
\* is submitted; what is submitted is a complete vector.
C16_MissingFieldYieldsNone ==
  cresult # NotCalled =>
    /\ (cbatch = <<>> \/ \E i \in 1..Len(cbatch) : LacksRequired(cbatch[i]))
         => (cresult = None /\ cqueue = <<>>)
    /\ cresult # None => (cqueue = <<cresult>> /\ Complete(cresult))

\* C16, amended: compute returns None exactly for an empty batch and for a
\* batch on which the derivation raises; the caller then submits nothing.
\* A packet record that lacks a field does not fail the derivation: the
\* field is read as its default (no address, raw timestamp 0), and a vector
\* is returned and submitted.  Every vector submitted is complete: the 41
\* schema fields plus src_ip, dst_ip and timestamp.
C16_NoneOnlyForEmptyOrRaising ==
  cresult # NotCalled =>
    /\ (cresult = None) <=> (cbatch = <<>> \/ Raises(cbatch))
    /\ cresult = None => cqueue = <<>>
    /\ cresult # None =>
         /\ cqueue = <<cresult>>
         /\ Complete(cresult)
         /\ "src_ip" \notin DOMAIN cbatch[1] => cresult.src_ip = NoneText
         /\ "timestamp_raw" \notin DOMAIN cbatch[1] =>
              cresult.duration = Get(Last(cbatch), "timestamp_raw", 0)

\* C16 witness: a batch whose first packet has no source address was
\* computed and the vector, with no source address, was submitted.
C16_Witness ==
  /\ cbatch = <<PktNoSrc, Pkt150>>
  /\ cresult \notin {NotCalled, None}
  /\ cresult.src_ip = NoneText
  /\ cqueue = <<cresult>>

\* The packet record carries a raw timestamp.
Timed(p) == IsDict(p) /\ "timestamp_raw" \in DOMAIN p

\* C17: for every non-empty batch of packet records, the vector's duration
\* is the raw timestamp of the last packet minus that of the first packet,
\* for every batch length, and therefore 0 when all packets carry the same
\* raw timestamp.
C17_DurationIsLastMinusFirst ==
  (/\ cresult \notin {NotCalled, None}
   /\ Timed(cbatch[1])
   /\ Timed(cbatch[Len(cbatch)])) =>
    /\ cresult.duration
         = cbatch[Len(cbatch)].timestamp_raw - cbatch[1].timestamp_raw
    /\ (\A i \in 1..Len(cbatch) :
           Timed(cbatch[i]) /\ cbatch[i].timestamp_raw = cbatch[1].timestamp_raw)
         => cresult.duration = 0

\* C17 witness: for raw timestamps 0, 100, 250 the duration is 250.
C17_Witness ==
  /\ cbatch = <<Pkt100, Pkt150, Pkt200>>
  /\ cresult \notin {NotCalled, None}
  /\ cresult.duration = 250

\* The packet record has every key extract_packet_features sets.
Whole(p) == IsDict(p) /\ DOMAIN Pkt100 \subseteq DOMAIN p

RECURSIVE SizeOfMatching(_, _, _, _)
\* Sum of the sizes of the first n packets of b whose field equals value.
SizeOfMatching(b, n, field, value) ==
  IF n = 0 THEN 0
  ELSE SizeOfMatching(b, n - 1, field, value)
       + (IF b[n][field] = value THEN b[n].packet_size ELSE 0)

\* C18: for every non-empty batch of whole packet records the vector has the
\* first packet's protocol_type, flag 'SF', src_bytes the sum of the sizes of
\* the packets with the first packet's source address, dst_bytes the sum of
\* the sizes of those with its destination address, count and srv_count the
\* batch length, and land 1 exactly when the first packet's source and
\* destination address are equal.  For the three TCP packets
\* 10.0.0.1:1000 -> 10.0.0.2:80 of sizes 100, 150, 200 that gives one
\* submitted vector with src_bytes 450, count 3, service http and land 0.
C18_VectorFieldsFromBatch ==
  (/\ cresult \notin {NotCalled, None}
   /\ \A i \in 1..Len(cbatch) : Whole(cbatch[i])) =>
    /\ cresult.protocol_type = cbatch[1].protocol_type
    /\ cresult.flag = "SF"
    /\ cresult.src_bytes
         = SizeOfMatching(cbatch, Len(cbatch), "src_ip", cbatch[1].src_ip)
    /\ cresult.dst_bytes
         = SizeOfMatching(cbatch, Len(cbatch), "dst_ip", cbatch[1].dst_ip)
    /\ cresult.count = Len(cbatch)
    /\ cresult.srv_count = Len(cbatch)
    /\ cresult.land \in {0, 1}
    /\ (cresult.land = 1) <=> (cbatch[1].src_ip = cbatch[1].dst_ip)
    /\ cbatch = <<Pkt100, Pkt150, Pkt200>> =>
         /\ cresult.src_bytes = 450
         /\ cresult.count = 3
         /\ cresult.service = "http"
         /\ cresult.land = 0
         /\ cqueue = <<cresult>>

\* C18 witness: a batch in which a reply stands between two packets of the
\* first packet's direction; only the two count for src_bytes.
C18_Witness ==
  /\ cbatch = <<Pkt100, PktReply, Pkt200>>
  /\ cresult \notin {NotCalled, None}
  /\ cresult.src_bytes = 300
  /\ cresult.count = 3

\* The service table of the specification.
ServiceOf(port) ==
  CASE port = 20 -> "ftp_data" [] port = 21 -> "ftp" [] port = 22 -> "ssh"
    [] port = 23 -> "telnet" [] port = 25 -> "smtp" [] port = 53 -> "domain_u"
    [] port = 80 -> "http" [] port = 110 -> "pop_3" [] port = 143 -> "imap4"
    [] port = 443 -> "https" [] port = 3306 -> "mysql"
    [] port = 5432 -> "postgres" [] port = 6379 -> "redis"
    [] port = 8080 -> "http_8080" [] port = 8443 -> "https_alt"
    [] OTHER -> "other"

\* C19: the vector's service is the table entry of the first packet's
\* destination port for the fifteen ports of the table and 'other' for every
\* other port, port 0 of ICMP and portless packets included.
C19_ServiceFromFirstDstPort ==
  (/\ cresult \notin {NotCalled, None}
   /\ "dst_port" \in DOMAIN cbatch[1]) =>
    /\ cresult.service = ServiceOf(cbatch[1].dst_port)
    /\ cbatch[1].protocol_type = "icmp" => cresult.service = "other"
    /\ cbatch[1].dst_port \notin
         {20, 21, 22, 23, 25, 53, 80, 110, 143, 443, 3306, 5432, 6379, 8080,
          8443} => cresult.service = "other"

\* C19 witness: the first packet goes to port 8443, later ones to port 80;
\* the service is https_alt.
C19_Witness ==
  /\ cbatch = <<PortProbe(8443), Pkt150>>
  /\ cresult \notin {NotCalled, None}
  /\ cresult.service = "https_alt"

\* The packets of sequence ps are in the order in which they were captured.
InArrivalOrder(ps) ==
  \A i, j \in 1..Len(ps) : i < j => ps[i].id < ps[j].id

\* C20: every buffer and every batch lists its packets in the order in which
\* they arrived and were recorded; an append puts the new packet behind all
\* packets already buffered; and of two batches of the same connection key
\* the one taken earlier holds only packets recorded before every packet of
\* the later one, which in turn precede what the key's buffer holds now.
C20_ArrivalOrderPreserved ==
  /\ [](/\ \A o \in DOMAIN heap : InArrivalOrder(heap[o].packets)
        /\ \A i \in 1..Len(batches) : InArrivalOrder(batches[i])
        /\ \A i, j \in 1..Len(batches) :
             (i < j /\ ConnKey(batches[i][1]) = ConnKey(batches[j][1])) =>
               InArrivalOrder(batches[i] \o batches[j])
        /\ \A i \in 1..Len(batches) :
             \A k \in DOMAIN connection_states :
               (k = ConnKey(batches[i][1])
                /\ ~(pc[MainThread] = "clear"
                     /\ packets_to_analyze[MainThread] = batches[i])) =>
                 InArrivalOrder(batches[i]
                                  \o heap[connection_states[k]].packets))
  /\ [][pc[MainThread] = "append" /\ pc'[MainThread] = "check" =>
          /\ Last(heap'[conn_state[MainThread]].packets) = features[MainThread]
          /\ \E n \in 0..Len(heap[conn_state[MainThread]].packets) :
               SubSeq(heap'[conn_state[MainThread]].packets, 1,
                      Len(heap'[conn_state[MainThread]].packets) - 1)
                 = SubSeq(heap[conn_state[MainThread]].packets, n + 1,
                          Len(heap[conn_state[MainThread]].packets))]_vars

\* C20 witness: two batches of the same key were taken, a packet of the
\* other direction arrived in between, and the first batch holds packets
\* 1, 2, 4 and the second packets 5, 6, 7.
C20_Witness ==
  /\ Len(batches) = 2
  /\ ConnKey(batches[1][1]) = ConnKey(batches[2][1])
  /\ IdsOf(batches[1]) = <<1, 2, 4>>
  /\ IdsOf(batches[2]) = <<5, 6, 7>>

\* Keys of the packets whose lookup (line 250) has been executed: those in a
\* batch, in a buffer, or in the hands of a handler inside the "with" block.
LookedUpKeys ==
  {ConnKey(batches[i][1]) : i \in 1..Len(batches)}
  \cup {ConnKey(heap[o].packets[1]) : o \in {x \in DOMAIN heap : heap[x].packets # <<>>}}
  \cup {ConnKey(features[t]) :
          t \in {u \in Threads : pc[u] \in {"append", "check", "clear", "release"}}}

\* C21: without a sweep in the run, the table holds exactly the keys for
\* which a packet has been looked up (a flow is created by its first packet,
\* not before), a key once in the table stays there with the same flow state
\* through every drain, every batch has exactly PACKETS_PER_CONNECTION
\* packets, a drain leaves the key in the table with an empty buffer, and
\* whenever no record step is under way every buffer is shorter than
\* PACKETS_PER_CONNECTION, so the deque's capacity of twice that is never
\* reached.
C21_LazyFlowPersistsAcrossDrains ==
  /\ [](/\ DOMAIN connection_states = LookedUpKeys
        /\ \A i \in 1..Len(batches) :
             /\ Len(batches[i]) = PACKETS_PER_CONNECTION
             /\ ConnKey(batches[i][1]) \in DOMAIN connection_states
        /\ \A t \in Threads :
             (pc[t] = "release" /\ packets_to_analyze[t] # <<>>) =>
               /\ Buffer(t) = <<>>
               /\ connection_states[ConnKey(features[t])] = conn_state[t]
        /\ \A o \in DOMAIN heap :
             /\ Len(heap[o].packets) <= PACKETS_PER_CONNECTION
             /\ Len(heap[o].packets) < DequeMaxLen
             /\ lock = NoHolder => Len(heap[o].packets) < PACKETS_PER_CONNECTION)
  /\ [][\A k \in DOMAIN connection_states :
          /\ k \in DOMAIN connection_states'
          /\ connection_states'[k] = connection_states[k]]_vars

\* C21 witness: the flow of one key has been drained twice and is still in
\* the table, its buffer refilled with the seventh packet.
C21_Witness ==
  /\ Len(batches) = 2
  /\ ConnKey(batches[1][1]) = ConnKey(batches[2][1])
  /\ \E k \in DOMAIN connection_states :
       /\ k = ConnKey(batches[1][1])
       /\ IdsOf(heap[connection_states[k]].packets) = <<7>>
  /\ lock = NoHolder

\* Vectors the executor holds: queued or in a request.
Held == {queue[i] : i \in 1..Len(queue)} \cup inflight

C23_AtMostFiveDeliveriesInProgress ==
  /\ MAX_WORKERS = 5
  /\ Cardinality(inflight) <= 5
  /\ Cardinality(inflight) + Len(queue) + Len(posts) <= Len(batches)

\* C23 witness: seven vectors were submitted; five are in a request and two
\* wait.
C23_Witness ==
  /\ Len(batches) = 7
  /\ Cardinality(inflight) = 5
  /\ Len(queue) = 2

\* Connection keys of the frames of the run with fair scheduling.
LiveKeys ==
  {ConnKey(extract_packet_features(raw, 0, 0)) : raw \in {RawIcmpAB}}

\* The flow of key k is in the table and has not been touched for longer
\* than MAX_CONNECTION_AGE.
IdleTooLong(k) ==
  /\ k \in DOMAIN connection_states
  /\ now - heap[connection_states[k]].last_update > MAX_CONNECTION_AGE

\* C24: while the monitor runs and the cleanup thread is scheduled fairly, a
\* flow that has been idle for longer than MAX_CONNECTION_AGE does not stay:
\* unless a packet touches it again, a later sweep removes its key from the
\* table.  (The clock of the model ends at LiveMaxTime, so the flow must have
\* gone stale one cleanup interval before that.)  Once all packets of the
\* run have been handled no packet touches a flow again: an idle flow is
\* then removed for good.
C24_IdleFlowEventuallyRemoved ==
  \A k \in LiveKeys :
    /\ (IdleTooLong(k) /\ now + CONNECTION_CLEANUP_INTERVAL <= LiveMaxTime)
         ~> (~IdleTooLong(k))
    /\ (/\ IdleTooLong(k) /\ now + CONNECTION_CLEANUP_INTERVAL <= LiveMaxTime
        /\ captured = LivePackets /\ pc[MainThread] = "idle")
         ~> [](k \notin DOMAIN connection_states)

\* C24 witness: all packets of the run have been handled, the flow then
\* stayed idle, and a sweep has removed it while the monitor is running.
C24_Witness ==
  /\ running
  /\ captured = LivePackets
  /\ pc[MainThread] = "idle"
  /\ cleaned > 0
  /\ connection_states = <<>>
  /\ now > MAX_CONNECTION_AGE

\* The clock of a bounded run can still carry the cleanup thread through the
\* sleep it is in: the interval is over, or one more interval fits before
\* the last clock value.
SleepCanEnd(limit) ==
  \/ rpc # "sleep"
  \/ now - sleep_start >= CONNECTION_CLEANUP_INTERVAL
  \/ now + CONNECTION_CLEANUP_INTERVAL <= limit

\* C25: once _running has been cleared the cleanup thread's loop exits
\* (after the sleep it is in and the sweep that follows it), and it stays
\* exited; and the flow table is written only by steps of packet_handler
\* (which alone add a key) and by the cleanup thread's delete step (which
\* alone removes keys).
C25_ReaperExitsAfterStop ==
  /\ (~running /\ SleepCanEnd(HaltMaxTime)) ~> [](rpc = "done")
  /\ [][/\ (connection_states' # connection_states) =>
             \/ \E t \in Threads : pc[t] = "acquire" /\ pc'[t] # pc[t]
             \/ InSweepBlock /\ rpc' = "loop"
        /\ (DOMAIN connection_states \ DOMAIN connection_states' # {}) =>
             InSweepBlock
        /\ (DOMAIN connection_states' \ DOMAIN connection_states # {}) =>
             \E t \in Threads : pc[t] = "acquire" /\ pc'[t] # pc[t]]_vars

\* C25 witness: Ctrl+C arrived while the cleanup thread slept; the thread
\* woke, swept once more and left its loop.
C25_Witness ==
  /\ ~running
  /\ caught = "KeyboardInterrupt"
  /\ rpc = "done"
  /\ sweeps_after_stop = 1

\* C26: the decoder classifies a frame by the first matching layer in the
\* order TCP, UDP, ICMP, other: with a TCP layer the record is 'tcp' with the
\* TCP header's ports; else with a UDP layer 'udp' with the UDP header's
\* ports; else with an ICMP layer 'icmp' with both ports 0; else 'other'
\* with both ports 0.  Every record returned has both port fields.
C26_FirstMatchingLayer ==
  (dresult # NotCalled /\ dresult # None) =>
    LET L == dframe.layers IN
      /\ {"src_port", "dst_port", "protocol_type"} \subseteq DOMAIN dresult
      /\ "TCP" \in L =>
           /\ dresult.protocol_type = "tcp"
           /\ dresult.src_port = dframe.tcp.sport
           /\ dresult.dst_port = dframe.tcp.dport
      /\ ("TCP" \notin L /\ "UDP" \in L) =>
           /\ dresult.protocol_type = "udp"
           /\ dresult.src_port = dframe.udp.sport
           /\ dresult.dst_port = dframe.udp.dport
      /\ L = {"ICMP"} =>
           /\ dresult.protocol_type = "icmp"
           /\ dresult.src_port = 0
           /\ dresult.dst_port = 0
      /\ L = {} =>
           /\ dresult.protocol_type = "other"
           /\ dresult.src_port = 0
           /\ dresult.dst_port = 0

\* C26 witness: a frame carrying a TCP, a UDP and an ICMP layer was decoded
\* as 'tcp'.
C26_Witness ==
  /\ dframe.layers = {"TCP", "UDP", "ICMP"}
  /\ dresult # NotCalled
  /\ dresult # None
  /\ dresult.protocol_type = "tcp"
  /\ dresult.dst_port \in {80, 1234}

\* Largest member of a non-empty set of numbers.
Max(S) == CHOOSE m \in S : \A x \in S : x <= m

\* C27: the packets in the buffer of a flow that a sweep removes are
\* discarded: they are in no buffer of the table and in no batch, and the
\* first packet recorded after them finds no flow for its key: once it has
\* been appended, the flow under its key is a new one whose buffer holds
\* exactly that packet.
C27_EvictedPacketsDiscarded ==
  /\ \A p \in discarded :
       /\ \A o \in DOMAIN heap : p \notin PacketIds(heap[o].packets)
       /\ \A i \in 1..Len(batches) : p \notin PacketIds(batches[i])
       /\ \A t \in Threads : p \notin PacketIds(packets_to_analyze[t])
  /\ \A t \in Threads :
       (/\ discarded # {}
        /\ pc[t] = "check"
        /\ features[t].id = Max(discarded) + 1) =>
         /\ connection_states[ConnKey(features[t])] = conn_state[t]
         /\ Buffer(t) = <<features[t]>>
         /\ heap[conn_state[t]].start_time = features[t].timestamp_raw

\* C27 witness: a sweep has removed a flow with buffered packets, and the
\* next packet of the same key has just been appended to a new flow.
C27_Witness ==
  /\ discarded # {}
  /\ pc[MainThread] = "check"
  /\ features[MainThread].id = Max(discarded) + 1
  /\ Buffer(MainThread) = <<features[MainThread]>>
  /\ now > MAX_CONNECTION_AGE

\* Sum of the sizes of the first n packets of batch b.
RECURSIVE TotalSize(_, _)
TotalSize(b, n) == IF n = 0 THEN 0 ELSE TotalSize(b, n - 1) + b[n].packet_size

\* Vectors handed to the executor and not yet posted.
Waiting == {queue[i] : i \in 1..Len(queue)} \cup inflight

\* C28: every batch taken out of the flow table holds packets of one source
\* and one destination address, and the vector computed from it has
\* src_bytes = dst_bytes = the sum of the sizes of all packets of the batch.
C28_TableBatchBytesEqual ==
  /\ \A i \in 1..Len(batches) : \A j \in 1..Len(batches[i]) :
       /\ batches[i][j].src_ip = batches[i][1].src_ip
       /\ batches[i][j].dst_ip = batches[i][1].dst_ip
  /\ \A v \in Waiting :
       \E i \in 1..Len(batches) :
         /\ v.ids = [j \in 1..Len(batches[i]) |-> batches[i][j].id]
         /\ v.src_bytes = TotalSize(batches[i], Len(batches[i]))
         /\ v.dst_bytes = TotalSize(batches[i], Len(batches[i]))

\* C28 witness: a batch of packets of different sizes (100, 60, 60) has been
\* taken and its vector waits with src_bytes = dst_bytes = 220.
C28_Witness ==
  \E v \in Waiting : v.src_bytes = 220 /\ v.dst_bytes = 220 /\ v.count = 3

\* C29: after _running has been cleared the cleanup thread begins at most
\* one more sweep, the one that follows the sleep it was in when the flag
\* was cleared: it never begins a new sleep after that, and a sweep begins
\* only out of a sleep.
C29_AtMostOneSweepAfterStop ==
  /\ [](sweeps_after_stop <= 1)
  /\ [][/\ (~running /\ rpc' = "sleep") => rpc = "sleep"
        /\ (rpc' = "acquire" /\ rpc # "acquire") => rpc = "sleep"]_vars

\* C29 witness: the flag was cleared during a sleep and the sweep after that
\* sleep is in its "with" block.
C29_Witness ==
  /\ ~running
  /\ sweeps_after_stop = 1
  /\ rpc = "delete"
  /\ mpc = "returned"

\* Routes wrapped by login_required.
Protected == {"/", "/threats", "/stats", "/test-alert"}

\* The session carries logged_in = True.
SessionLoggedIn == "logged_in" \in DOMAIN session /\ session["logged_in"] = TRUE

\* The last request went to a wrapped route and its view answered it.
ViewAnswered == request.route \in Protected /\ response # RedirectLogin

\* A wrapped route is answered by its view only while the session is logged
\* in; /logout leaves the session logged out, so that every later request to
\* a wrapped route is sent to the login page until logged_in is set again;
\* POST /analyze is answered by its view whatever the session is.
SessionGuardsRoutes ==
  /\ [](ViewAnswered => SessionLoggedIn)
  /\ []((request.route \in Protected /\ ~SessionLoggedIn)
          => response = RedirectLogin)
  /\ [][(request'.route = "/logout") => ~SessionLoggedIn']_vars
  /\ []((request.route = "/analyze" /\ request.method = "POST")
          => (response.status \notin {0, 302, 401} /\ response # RedirectLogin))

\* C30 as stated: the routes /, /threats, /stats and /test-alert return
\* their content only while the session is logged in, logged_in is set only
\* by a POST to /login that carries the configured admin username and
\* password, every request after /logout is denied until a new successful
\* login, and POST /analyze is served without login.
C30_LoginOnlyWithConfiguredCredentials ==
  /\ SessionGuardsRoutes
  /\ [][(SessionLoggedIn' /\ ~SessionLoggedIn) =>
          /\ request'.route = "/login"
          /\ request'.method = "POST"
          /\ request'.username = ADMIN_USERNAME
          /\ request'.password = ADMIN_PASSWORD]_vars

\* C30 amended: as stated, except that logged_in is set only by a POST to
\* /login whose username and password equal the configured admin username
\* and password once surrounding whitespace has been stripped from them.
C30_LoginOnlyWithStrippedCredentials ==
  /\ SessionGuardsRoutes
  /\ [][(SessionLoggedIn' /\ ~SessionLoggedIn) =>
          /\ request'.route = "/login"
          /\ request'.method = "POST"
          /\ strip(request'.username) = ADMIN_USERNAME
          /\ strip(request'.password) = ADMIN_PASSWORD
          /\ session'["username"] = ADMIN_USERNAME]_vars

\* C30 witness: a POST to /login whose username carries a leading blank has
\* logged the session in.
C30_Witness ==
  /\ request.route = "/login"
  /\ request.method = "POST"
  /\ request.username = <<" ">> \o ADMIN_USERNAME
  /\ SessionLoggedIn
  /\ response = RedirectIndex

\* C31: a /stats request that begins after a predict call has returned is
\* answered with statistics that count that prediction, whether the answer
\* is computed or taken from the cache.
C31_StatsIncludeCompletedPredictions ==
  s_answer.served => s_answer.total >= s_answer.began

\* The smaller of two numbers.
Min(a, b) == IF a <= b THEN a ELSE b

\* C32: the threat history never holds more than MAX_HISTORY_SIZE = 1000
\* results and is always the most recent results in the order in which they
\* were appended, the oldest having been dropped once it was full; a predict
\* call that returns a result appends exactly that one result, and a call
\* that fails because no model is loaded or because preprocessing failed
\* leaves the history as it was.
C32_HistoryIsMostRecentThousand ==
  /\ [](/\ MAX_HISTORY_SIZE = 1000
        /\ Len(threat_history) = Min(predicted, 1000)
        /\ \A i \in 1..Len(threat_history) :
             threat_history[i] = predicted - Len(threat_history) + i)
  /\ [][(p_returned' = "result") =>
          /\ predicted' = predicted + 1
          /\ threat_history'[Len(threat_history')] = predicted'
          /\ Len(threat_history') = Min(Len(threat_history) + 1, 1000)]_vars
  /\ [][(p_returned' \in {"model_none", "preprocess_failed"}) =>
          threat_history' = threat_history]_vars

\* C32 witness: more than 1000 results have been appended; the history
\* holds the last 1000 of them.
C32_Witness ==
  /\ predicted > MAX_HISTORY_SIZE
  /\ Len(threat_history) = MAX_HISTORY_SIZE
  /\ threat_history[1] = predicted - MAX_HISTORY_SIZE + 1
  /\ p_returned = "result"

====
